---- MODULE Spec2Model ----
(***************************************************************************)
(* Model of the secure-data-proxy edge function (src/unnamed/part_002).    *)
(* One request is handled at a time; every await of the handler (identity  *)
(* call, role lookup, row fetches, encryption) ends one action.            *)
(* JSON values are tagged records so that strings, null, objects and       *)
(* encrypted envelopes can be told apart.                                  *)
(***************************************************************************)
EXTENDS Integers, Sequences, FiniteSets, TLC

\* ------------------------------------------------------------------ bounds
\* Largest number of rows a table of the store holds.
MaxRows == 2
\* Number of distinct nonce seeds the encryption may draw.
NumNonces == 1
\* The longest phone number and the longest identifier a helper is applied to.
MaxPhoneLen == 6
MaxIdLen == 9
\* The most calls of one day the aggregate of today_stats is applied to.
MaxToday == 40

\* ------------------------------------------------------------- JSON values
Null == [t |-> "null"]
Str(s) == [t |-> "str", v |-> s]
Num(n) == [t |-> "num", v |-> n]
Bool(b) == [t |-> "bool", v |-> b]
Obj(f) == [t |-> "obj", v |-> f]

\* A key that an object does not have.
Absent == [t |-> "undefined"]

\* JavaScript truthiness of a value (undefined, null, "", 0 and false are
\* falsy).
Truthy(x) ==
  CASE x.t = "null" -> FALSE
    [] x.t = "undefined" -> FALSE
    [] x.t = "str" -> x.v # ""
    [] x.t = "num" -> x.v # 0
    [] x.t = "bool" -> x.v
    [] OTHER -> TRUE

RECURSIVE Stars(_)
\* "*".repeat(n)
Stars(n) == IF n <= 0 THEN "" ELSE "*" \o Stars(n - 1)

\* ------------------------------------------------------ masking utilities
\* Mutation: only a phone shorter than four characters is masked whole.
maskPhoneShorterThanFour(phone) ==
  IF ~Truthy(phone) THEN Str("****")
  ELSE IF Len(phone.v) < 4 THEN Str("****")
  ELSE Str(Stars(Len(phone.v) - 4) \o SubSeq(phone.v, Len(phone.v) - 3, Len(phone.v)))

maskPhone(phone) ==
  IF ~Truthy(phone) THEN Str("****")
  ELSE IF Len(phone.v) <= 4 THEN Str("****")
  ELSE Str(Stars(Len(phone.v) - 4) \o SubSeq(phone.v, Len(phone.v) - 3, Len(phone.v)))

\* Mutation: the identifier is not cut at eight characters.
maskUuidWhole(uuid) ==
  IF ~Truthy(uuid) THEN Str("********") ELSE Str(uuid.v \o "...")

maskUuid(uuid) ==
  IF ~Truthy(uuid) THEN Str("********")
  ELSE Str(SubSeq(uuid.v, 1, IF Len(uuid.v) < 8 THEN Len(uuid.v) ELSE 8) \o "...")

maskSystemPrompt(prompt) ==
  IF ~Truthy(prompt) THEN Null ELSE Str("[System prompt configured]")

\* Mutation: a stored URL is returned as it is.
proxyRecordingUrlRaw(url, callId) ==
  IF ~Truthy(url) THEN Null ELSE url

proxyRecordingUrl(url, callId) ==
  IF ~Truthy(url) THEN Null ELSE Str("proxy:recording:" \o callId.v)

\* --------------------------------------------------------------- encryption
\* The process-wide key.
EncryptionKey == "key-1"

\* Mutation: the envelope names a nonce other than the one the text was sealed
\* with.
encryptDataOtherNonce(plaintext, iv) ==
  IF plaintext = "" THEN [t |-> "null"]
  ELSE [t |-> "envelope",
        algorithm |-> "AES-256-GCM",
        iv |-> [nonce |-> 0, row |-> "", field |-> ""],
        ciphertext |-> [sealed |-> plaintext, key |-> "key-1", iv |-> iv],
        tag |-> [mac |-> plaintext, key |-> "key-1", iv |-> iv]]

\* encryptData of _shared/encryption.ts: the envelope of a non-empty plaintext
\* under a fresh nonce; the "no data" marker for an empty one.  Ciphertext and
\* tag are symbolic terms over key, nonce and plaintext.
encryptData(plaintext, iv) ==
  IF plaintext = "" THEN Null
  ELSE [t |-> "envelope",
        algorithm |-> "AES-256-GCM",
        iv |-> iv,
        ciphertext |-> [sealed |-> plaintext, key |-> EncryptionKey, iv |-> iv],
        tag |-> [mac |-> plaintext, key |-> EncryptionKey, iv |-> iv]]

IsEnvelope(x) == x.t = "envelope"

\* The failure decryptData signals.
DecryptionError == [t |-> "DecryptionError"]

\* A field an envelope lacks.
Missing == [t |-> "undefined"]

\* Mutation: the authentication tag is not verified.
decryptDataUnverified(payload, key) ==
  IF payload.t # "envelope" THEN DecryptionError
  ELSE IF Missing \in {payload.iv, payload.ciphertext, payload.tag} THEN DecryptionError
  ELSE IF payload.ciphertext.key # key THEN DecryptionError
  ELSE Str(payload.ciphertext.sealed)

\* decryptData of _shared/encryption.ts: the plaintext of an envelope of the
\* right shape whose tag authenticates its ciphertext under the key and the
\* envelope's nonce; DecryptionError for anything else.
decryptData(payload, key) ==
  IF payload.t # "envelope" THEN DecryptionError
  ELSE IF Missing \in {payload.iv, payload.ciphertext, payload.tag} THEN DecryptionError
  ELSE IF payload.algorithm # "AES-256-GCM" THEN DecryptionError
  ELSE IF /\ payload.ciphertext.key = key
          /\ payload.ciphertext.iv = payload.iv
          /\ payload.tag = [mac |-> payload.ciphertext.sealed, key |-> key,
                            iv |-> payload.iv]
       THEN Str(payload.ciphertext.sealed)
       ELSE DecryptionError

\* The nonce of the encryption of one field of one row.
IvFor(seed, rowId, field) == [nonce |-> seed, row |-> rowId, field |-> field]

\* JSON.stringify of a value, for the values metadata.extracted_data takes.
Digit(n) == CASE n = 0 -> "0" [] n = 1 -> "1" [] n = 2 -> "2" [] n = 3 -> "3"
              [] n = 4 -> "4" [] n = 5 -> "5" [] n = 6 -> "6" [] n = 7 -> "7"
              [] n = 8 -> "8" [] OTHER -> "9"

RECURSIVE NumStr(_)
NumStr(n) == IF n < 10 THEN Digit(n) ELSE NumStr(n \div 10) \o Digit(n % 10)

Quote(s) == "\"" \o s \o "\""

\* The order in which the keys of an object are serialized.
KeyOrder == <<"budget", "city", "note">>

RECURSIVE StringifyKeys(_, _, _)
Stringify(x) ==
  CASE x.t = "null" -> "null"
    [] x.t = "str" -> Quote(x.v)
    [] x.t = "num" -> NumStr(x.v)
    [] x.t = "bool" -> IF x.v THEN "true" ELSE "false"
    [] OTHER -> "{" \o StringifyKeys(x.v, 1, TRUE) \o "}"

StringifyKeys(f, i, first) ==
  IF i > Len(KeyOrder) THEN ""
  ELSE IF KeyOrder[i] \in DOMAIN f
       THEN (IF first THEN "" ELSE ",") \o Quote(KeyOrder[i]) \o ":"
            \o (CASE f[KeyOrder[i]].t = "str" -> Quote(f[KeyOrder[i]].v)
                  [] f[KeyOrder[i]].t = "num" -> NumStr(f[KeyOrder[i]].v)
                  [] OTHER -> "null")
            \o StringifyKeys(f, i + 1, FALSE)
       ELSE StringifyKeys(f, i + 1, first)

\* ------------------------------------------------------ metadata sanitizer
\* Keys copied when their value is truthy, and keys copied when defined.
TruthyKeys == {"source", "lead_name", "campaign_id", "aitel_status", "error_message"}
DefinedKeys == {"is_retry", "retry_attempt", "answered_by_voicemail"}

\* Mutation: the metadata object is passed through as stored.
sanitizeMetadataPassThrough(metadata, iv) ==
  IF ~Truthy(metadata) THEN Null ELSE metadata

\* Mutation: every allow-listed key is copied only when its value is truthy.
sanitizeMetadataTruthyOnly(metadata, iv) ==
  IF ~Truthy(metadata) THEN Null
  ELSE LET m == metadata.v
           kept == {k \in DOMAIN m : k \in TruthyKeys \cup DefinedKeys /\ Truthy(m[k])}
       IN Obj([k \in kept |-> m[k]])

\* Mutation: extracted_data is copied as stored.
sanitizeMetadataRawExtracted(metadata, iv) ==
  IF ~Truthy(metadata) THEN Null
  ELSE LET m == metadata.v
           kept == {k \in DOMAIN m : \/ k \in TruthyKeys /\ Truthy(m[k])
                                     \/ k \in DefinedKeys
                                     \/ k = "extracted_data" /\ Truthy(m[k])}
       IN Obj([k \in kept |-> m[k]])

sanitizeMetadata(metadata, iv) ==
  IF ~Truthy(metadata) THEN Null
  ELSE LET m == metadata.v
           kept == {k \in DOMAIN m : \/ k \in TruthyKeys /\ Truthy(m[k])
                                     \/ k \in DefinedKeys}
           enc == IF "extracted_data" \in DOMAIN m /\ Truthy(m["extracted_data"])
                  THEN {"extracted_data"} ELSE {}
       IN Obj([k \in kept \cup enc |->
                IF k = "extracted_data"
                THEN encryptData(IF m[k].t = "str" THEN m[k].v ELSE Stringify(m[k]), iv)
                ELSE m[k]])

\* Whether sanitizeMetadata calls encryptData for this metadata.
MetadataEncrypts(metadata) ==
  /\ Truthy(metadata)
  /\ "extracted_data" \in DOMAIN metadata.v
  /\ Truthy(metadata.v["extracted_data"])

\* ----------------------------------------------------------- backing store
\* user_roles: one role record per user that has one; "norole1" has none.
UserRoles ==
  { [user_id |-> Str("eng1"), role |-> Str("engineer")],
    [user_id |-> Str("viewer1"), role |-> Str("viewer")],
    [user_id |-> Str("eng2"), role |-> Str("engineer")],
    [user_id |-> Str("admin1"), role |-> Str("admin")],
    [user_id |-> Str("client1"), role |-> Str("client")] }

\* Rows the demo_calls table may hold.
DemoCallPool ==
  { [id |-> Str("d1"), task_id |-> Str("t1"), agent_id |-> Str("a1"),
     engineer_id |-> Str("eng1"), phone_number |-> Str("9876543210"),
     status |-> Str("completed"), duration_seconds |-> Num(75), created_at |-> Num(1),
     external_call_id |-> Str("a1b2c3d4e5f6"),
     recording_url |-> Str("https://storage/demo/d1.mp3"),
     uploaded_audio_url |-> Null, transcript |-> Str("hello from eng1")],
    [id |-> Str("d2"), task_id |-> Str("t2"), agent_id |-> Str("a2"),
     engineer_id |-> Str("eng2"), phone_number |-> Str("12"),
     status |-> Str("completed"), duration_seconds |-> Num(20), created_at |-> Num(2),
     external_call_id |-> Null,
     recording_url |-> Null,
     uploaded_audio_url |-> Str("https://storage/demo/d2-upload.mp3"),
     transcript |-> Str("secret of eng2")],
    [id |-> Str("d3"), task_id |-> Str("t1"), agent_id |-> Str("a1"),
     engineer_id |-> Str("eng2"), phone_number |-> Null,
     status |-> Str("failed"), duration_seconds |-> Null, created_at |-> Num(3),
     external_call_id |-> Str("short"),
     recording_url |-> Str(""),
     uploaded_audio_url |-> Str("https://storage/demo/d3-upload.mp3"),
     transcript |-> Str("")] }

\* Rows the calls table may hold.  c1 carries the metadata the webhook writes
\* (recording_url and transcript under metadata) and a provider secret.
CallPool ==
  { [id |-> Str("c1"), agent_id |-> Str("a1"), client_id |-> Str("client1"),
     lead_id |-> Str("L1"), status |-> Str("completed"), connected |-> Bool(TRUE),
     duration_seconds |-> Num(60), created_at |-> Num(1), sentiment |-> Str("positive"),
     summary |-> Str("summary of c1"), transcript |-> Str("hello"),
     recording_url |-> Str("https://storage/calls/c1.mp3"),
     external_call_id |-> Str("ext-c1"),
     metadata |-> Obj([source |-> Str("fb"), lead_name |-> Str("Jane"),
                       secret_token |-> Str("xyz"),
                       recording_url |-> Str("https://storage/calls/c1.mp3"),
                       transcript |-> Str("hello"),
                       extracted_data |-> Str("budget 5L")])],
    [id |-> Str("c2"), agent_id |-> Str("a2"), client_id |-> Str("client2"),
     lead_id |-> Str("0123456789abcdef"), status |-> Str("in_progress"),
     connected |-> Bool(FALSE),
     duration_seconds |-> Null, created_at |-> Num(2), sentiment |-> Null,
     summary |-> Null, transcript |-> Str("live transcript of client2"),
     recording_url |-> Null,
     external_call_id |-> Str("ext-c2"),
     metadata |-> Null],
    [id |-> Str("c3"), agent_id |-> Str("a1"), client_id |-> Str("client1"),
     lead_id |-> Null, status |-> Str("failed"), connected |-> Null,
     duration_seconds |-> Num(31), created_at |-> Num(3), sentiment |-> Null,
     summary |-> Str("summary of c3"), transcript |-> Str(""),
     recording_url |-> Str(""),
     external_call_id |-> Null,
     metadata |-> Obj([is_retry |-> Bool(FALSE), retry_attempt |-> Num(0),
                       source |-> Str(""), error_message |-> Str("busy"),
                       extracted_data |-> Obj([budget |-> Num(5),
                                               city |-> Str("Pune")])])] }

AgentRows ==
  { [id |-> Str("a1"), agent_name |-> Str("Sales bot"),
     external_agent_id |-> Str("bolna-agent-0001"),
     current_system_prompt |-> Str("You are a sales agent"),
     original_system_prompt |-> Null],
    [id |-> Str("a2"), agent_name |-> Str("Support bot"),
     external_agent_id |-> Null,
     current_system_prompt |-> Str(""),
     original_system_prompt |-> Str("You are a support agent")] }

TaskRows ==
  { [id |-> Str("t1"), title |-> Str("Demo for builder"), selected_demo_call_id |-> Null,
     assigned_to |-> Str("eng1"), status |-> Str("pending"), created_at |-> Num(1),
     agent_id |-> Str("a1")],
    [id |-> Str("t2"), title |-> Str("Demo for school"),
     selected_demo_call_id |-> Str("d2"),
     assigned_to |-> Str("eng2"), status |-> Str("completed"), created_at |-> Num(2),
     agent_id |-> Null] }

\* The contents the store can have when a request arrives.
Stores ==
  { [user_roles |-> UserRoles, demo_calls |-> d, calls |-> c,
     tasks |-> TaskRows, aitel_agents |-> AgentRows] :
      d \in {x \in SUBSET DemoCallPool : Cardinality(x) <= MaxRows},
      c \in {x \in SUBSET CallPool : Cardinality(x) <= MaxRows} }

\* --------------------------------------------------------- query builder
\* .eq(col, val), .in(col, vals), .gte(col, n) of the PostgREST client.
Eq(rows, col, val) == {r \in rows : r[col] = val}
In(rows, col, vals) == {r \in rows : r[col] \in vals}
Gte(rows, col, n) == {r \in rows : r[col].t = "num" /\ r[col].v >= n}

\* .select(cols)
Select(rows, cols) == {[c \in cols |-> r[c]] : r \in rows}

RECURSIVE OrderDesc(_, _)
\* .order(col, {ascending: false})
OrderDesc(rows, col) ==
  IF rows = {} THEN <<>>
  ELSE LET top == CHOOSE r \in rows : \A q \in rows : q[col].v <= r[col].v
       IN <<top>> \o OrderDesc(rows \ {top}, col)


\* ---------------------------------------------------------------- requests
Methods == {"OPTIONS", "GET"}

AuthHeaders ==
  { Null, Str("Basic dXNlcjpwdw=="), Str("bearer tok-eng1"), Str("Bearer "),
    Str("Bearer expired"), Str("Bearer tok-eng1"), Str("Bearer tok-admin1"),
    Str("Bearer tok-client1"), Str("Bearer tok-viewer1"), Str("Bearer tok-norole1") }

KnownActions ==
  {"demo_calls", "admin_demo_calls", "calls", "active_calls", "today_stats", "tasks"}

BaseRequest(m, h, a) ==
  [method |-> m, authHeader |-> h, action |-> a, engineer_id |-> Null,
   client_id |-> Null, start_date |-> Null, status |-> Null, assigned_to |-> Null]

\* The requests a client can send: every method and header with every action
\* (known, unknown, empty or missing) and the query parameters the action reads.
Requests ==
  UNION { UNION {
    {[BaseRequest(m, h, Str("demo_calls")) EXCEPT !.engineer_id = e] :
        e \in {Null, Str("eng1"), Str("eng2")}}
    \cup {[BaseRequest(m, h, Str("calls")) EXCEPT
             !.client_id = c, !.start_date = d, !.status = st] :
        c \in {Null, Str("client1"), Str("client2")},
        d \in {Null, Num(2)},
        st \in {Null, Str("all"), Str("completed")}}
    \cup {[BaseRequest(m, h, Str("tasks")) EXCEPT !.assigned_to = a, !.status = st] :
        a \in {Null, Str("eng1")}, st \in {Null, Str("pending")}}
    \cup {BaseRequest(m, h, a) :
        a \in {Str("admin_demo_calls"), Str("active_calls"), Str("today_stats"),
               Str("nonexistent"), Str(""), Null}}
    : h \in AuthHeaders } : m \in Methods }

\* The requests concurrent clients send: every action by a principal allowed
\* to run it, an admin-only action asked by a principal without a role, an
\* unknown action and a request without a session.
PairRequests ==
  { [BaseRequest("GET", Str("Bearer tok-eng1"), Str("demo_calls")) EXCEPT
       !.engineer_id = Str("eng1")],
    BaseRequest("GET", Str("Bearer tok-admin1"), Str("active_calls")),
    [BaseRequest("GET", Str("Bearer tok-admin1"), Str("calls")) EXCEPT
       !.client_id = Str("client1")],
    BaseRequest("GET", Str("Bearer tok-admin1"), Str("admin_demo_calls")),
    BaseRequest("GET", Str("Bearer tok-admin1"), Str("today_stats")),
    BaseRequest("GET", Str("Bearer tok-norole1"), Str("today_stats")),
    BaseRequest("GET", Str("Bearer tok-eng1"), Str("tasks")),
    BaseRequest("GET", Str("Bearer tok-client1"), Str("nonexistent")),
    BaseRequest("GET", Null, Str("tasks")) }

\* The requests that can arrive under a setting of inbox.
Arrivals(setting) == IF setting = "any" THEN Requests ELSE PairRequests

\* --------------------------------------------------------------- responses
ZeroStats ==
  [total |-> 0, completed |-> 0, connected |-> 0, failed |-> 0, inProgress |-> 0,
   connectionRate |-> 0, avgDuration |-> 0]

\* The headers every response carries.
corsHeaders ==
  [allowOrigin |-> "*",
   allowHeaders |-> "authorization, x-client-info, apikey, content-type",
   contentType |-> ""]

\* {...corsHeaders, "Content-Type": "application/json"}
JsonHeaders == [corsHeaders EXCEPT !.contentType = "application/json"]

NoHeaders == [allowOrigin |-> "", allowHeaders |-> "", contentType |-> ""]

NoResponse ==
  [status |-> 0, kind |-> "none", error |-> "", rows |-> <<>>, stats |-> ZeroStats,
   headers |-> NoHeaders]

\* Mutation: the preflight is held to the header check like any request.
PreflightUnauthorized ==
  [status |-> 401, kind |-> "error", error |-> "Unauthorized", rows |-> <<>>,
   stats |-> ZeroStats, headers |-> JsonHeaders]

\* new Response(null, {headers: corsHeaders})
PreflightResponse ==
  [status |-> 200, kind |-> "empty", error |-> "", rows |-> <<>>, stats |-> ZeroStats,
   headers |-> corsHeaders]

\* new Response(JSON.stringify({error: msg}), {status})
ErrorResponse(status, msg) ==
  [status |-> status, kind |-> "error", error |-> msg, rows |-> <<>>, stats |-> ZeroStats,
   headers |-> JsonHeaders]

\* new Response(JSON.stringify(maskedData), ...)
RowsResponse(rows) ==
  [status |-> 200, kind |-> "rows", error |-> "", rows |-> rows, stats |-> ZeroStats,
   headers |-> JsonHeaders]

StatsResponse(stats) ==
  [status |-> 200, kind |-> "stats", error |-> "", rows |-> <<>>, stats |-> stats,
   headers |-> JsonHeaders]

\* Mutation: the handler has no catch block and the exception goes unanswered.
CatchNothing == NoResponse

\* The response of the catch block of the handler.
CatchResponse == ErrorResponse(500, "Internal server error")

\* The message of the error object the store client returns for a failed call.
StoreErrorMessage(table) == "relation \"public." \o table \o "\" does not exist"

\* ------------------------------------------------------------------- state
\* ===================================================== webhook handler: data
\* The handler of the telephony provider's webhook: it looks the call up by
\* the provider's identifier and updates the call and its lead by the event.

\* The invocations of the handler that can be in progress together.
HookHandlers == {"w1", "w2"}

\* A row of calls as the webhook reads and writes it.
HookCall(id, external, lead, metadata) ==
  [id |-> id, external_call_id |-> external, lead_id |-> lead, status |-> "initiated",
   duration_seconds |-> Null, connected |-> Bool(FALSE), ended_at |-> Null,
   metadata |-> metadata]

\* The calls placed with the provider: one, of the lead l1.
HookCalls == {HookCall("k1", "x1", Str("l1"), Obj([source |-> Str("facebook")]))}

HookLeads == {[id |-> "l1", status |-> "new"]}

\* The body of a webhook request.
Payload(event, call_id, duration, recording_url, transcript) ==
  [event |-> event, call_id |-> call_id, duration |-> duration,
   recording_url |-> recording_url, transcript |-> transcript]

Recording == Str("https://rec/1.mp3")
Transcript == Str("hello")

\* The bodies the provider sends: handled events and one that is not
\* handled for the call x1, an event of a call that was never placed, and a
\* body that is not an object.
WebhookPayloads ==
  {Payload(e, "x1", Absent, Absent, Absent) :
     e \in {"call.ringing", "call.answered", "call.ended", "call.failed",
            "call.no_answer", "call.transferred"}}
  \cup {Payload("call.ended", "x1", Num(45), Recording, Absent),
        Payload("call.completed", "x1", Num(44), Recording, Transcript),
        Payload("call.connected", "x9", Absent, Absent, Absent),
        Null}

\* A response of the webhook handler: its status and the success and error
\* keys of its body.
HookResponse(status, success, error) ==
  [status |-> status, success |-> success, error |-> error]

NoHookResponse == HookResponse(0, Absent, Absent)
HookPreflight == HookResponse(200, Absent, Absent)
HookNotFound == HookResponse(404, Bool(FALSE), Str("Call not found"))
HookSuccess == HookResponse(200, Bool(TRUE), Absent)
HookCatch == HookResponse(500, Absent, Str("error"))

\* The columns of the call that the handler reads after the lookup.
CallRead(c) == [id |-> c.id, lead_id |-> c.lead_id, metadata |-> c.metadata]

\* The locals of an invocation: its position, the body, the call it found,
\* whether the lookup succeeded, the updates it issued and its response.
HookIdle ==
  [pc |-> "idle", payload |-> Null, call |-> Null, lookup |-> "none",
   updates |-> <<>>, resp |-> NoHookResponse]

\* The tables before any event and every invocation idle.
HookInit ==
  [calls |-> HookCalls, leads |-> HookLeads, w |-> [h \in HookHandlers |-> HookIdle]]

\* No call was placed.
NoHook == [calls |-> {}, leads |-> {}, w |-> [h \in HookHandlers |-> HookIdle]]

\* ============================================================ send-otp: data
\* The handler that issues a one-time password: it replaces the stored
\* passwords of the email by a new one and mails it.

\* The requests the handler takes before the model stops taking more.
MaxSends == 3

\* The invocations of the handler that can be in progress together.
OtpHandlers == {"o1", "o2"}

\* The character of s at position i.
CharAt(s, i) == SubSeq(s, i, i)

\* s.includes(c) for a single character c
Includes(s, c) == \E i \in 1..Len(s) : CharAt(s, i) = c

RECURSIVE TrimStart(_)
\* s without its leading spaces
TrimStart(s) ==
  IF Len(s) > 0 /\ CharAt(s, 1) = " " THEN TrimStart(SubSeq(s, 2, Len(s))) ELSE s

RECURSIVE TrimEnd(_)
\* s without its trailing spaces
TrimEnd(s) ==
  IF Len(s) > 0 /\ CharAt(s, Len(s)) = " " THEN TrimEnd(SubSeq(s, 1, Len(s) - 1)) ELSE s

\* s.trim()
Trim(s) == TrimEnd(TrimStart(s))

\* The lower-case letter of an upper-case letter of the emails used here.
LowerOf(c) ==
  CASE c = "A" -> "a"
    [] c = "B" -> "b"
    [] c = "I" -> "i"
    [] c = "O" -> "o"
    [] c = "X" -> "x"
    [] OTHER -> c

RECURSIVE ToLowerCase(_)
\* s.toLowerCase()
ToLowerCase(s) ==
  IF s = "" THEN "" ELSE LowerOf(CharAt(s, 1)) \o ToLowerCase(SubSeq(s, 2, Len(s)))

\* email.trim().toLowerCase()
NormalizedEmail(email) == ToLowerCase(Trim(email))

\* The email key of the request bodies: missing, empty, blank, without "@",
\* not a string, two spellings of one address, and another address.
OtpEmails ==
  {Absent, Str(""), Str("  "), Str("a.x.io"), Num(7),
   Str("a@x.io"), Str(" A@X.io "), Str("b@x.io")}

\* The passwords generateOTP can return: 6 digits, from 100000 to 999999.
OtpCodes == {"100000", "999999"}

\* A response of send-otp: its status and the success and error keys of its
\* body.
OtpResponse(status, success, error) ==
  [status |-> status, success |-> success, error |-> error]

NoOtpResponse == OtpResponse(0, Absent, Absent)

\* The locals of an invocation: its position, the email of the body, the
\* normalized email, the password drawn, the operations it issued on
\* email_otps and its response.
OtpIdle ==
  [pc |-> "idle", email |-> Absent, normalizedEmail |-> "", otpCode |-> "",
   ops |-> <<>>, resp |-> NoOtpResponse]

\* email_otps empty, no request taken, every invocation idle.  inserted is
\* the number of rows inserted so far and last maps an email to the
\* number of its latest row.
NoOtp ==
  [table |-> {}, sends |-> 0, inserted |-> 0, last |-> << >>,
   o |-> [h \in OtpHandlers |-> OtpIdle]]

VARIABLES
  store,          \* contents of the backing store
  pc,             \* position of the handler
  req,            \* the request being handled
  authResult,     \* {data: userData, error: authError} of getUser
  userId,         \* userData.user.id
  userRole,       \* roleData?.role
  rows,           \* rows of the primary fetch, in response order
  tasksAux,       \* result of the auxiliary fetch of tasks
  agentsAux,      \* result of the auxiliary fetch of aitel_agents
  resp,           \* the response returned
  identityCalls,  \* calls made to the identity service for this request
  storeCalls,     \* calls made to the backing store for this request
  failedCalls,    \* the calls of this request that failed
  other,          \* the locals of a second request suspended at an await
  inbox,          \* which requests clients may send: "any", or "pair" for the
                  \* requests of two concurrent clients
  helper,         \* a direct application of a helper function: its name, its
                  \* argument, the nonce seed it draws and its result
  hook,           \* the webhook handler: the calls and leads it updates and
                  \* the locals of its invocations
  otp             \* send-otp: the table email_otps and the locals of its
                  \* invocations

vars == <<store, pc, req, authResult, userId, userRole, rows, tasksAux, agentsAux, resp,
          identityCalls, storeCalls, failedCalls, other, inbox, helper, hook, otp>>

\* What the actions of one handler leave alone.
outside == <<other, inbox, helper, hook, otp>>

NoAux == [ok |-> FALSE, rows |-> {}]
NoAuthResult == [error |-> FALSE, user |-> Null]

\* The locals of a handler that has not received a request.
IdleLocals ==
  [pc |-> "idle", req |-> BaseRequest("GET", Null, Null), authResult |-> NoAuthResult,
   userId |-> Null, userRole |-> Null, rows |-> <<>>, tasksAux |-> NoAux,
   agentsAux |-> NoAux, resp |-> NoResponse, identityCalls |-> 0, storeCalls |-> <<>>,
   failedCalls |-> {}]

\* No helper function is being applied.
NoHelperCall == [fn |-> "none", arg |-> Null, seed |-> 0, out |-> Null]

\* The handler is idle and nothing else is going on.
Idle ==
  /\ pc = "idle"
  /\ req = BaseRequest("GET", Null, Null)
  /\ authResult = NoAuthResult
  /\ userId = Null
  /\ userRole = Null
  /\ rows = <<>>
  /\ tasksAux = NoAux
  /\ agentsAux = NoAux
  /\ resp = NoResponse
  /\ identityCalls = 0
  /\ storeCalls = <<>>
  /\ failedCalls = {}
  /\ other = IdleLocals
  /\ helper = NoHelperCall

Init ==
  /\ store \in Stores
  /\ inbox = "any"
  /\ Idle
  /\ hook = NoHook
  /\ otp = NoOtp

\* The handler returns r.
Return(r) ==
  /\ resp' = r
  /\ pc' = "done"

\* Mutation: the call upserts into the table it reads.
StoreCallUpsert(table, ok) ==
  /\ storeCalls' = Append(storeCalls, [table |-> table, op |-> "upsert"])
  /\ failedCalls' = IF ok THEN failedCalls ELSE failedCalls \cup {table}

\* A call to the store is recorded; a failed one is remembered.
StoreCall(table, ok) ==
  /\ storeCalls' = Append(storeCalls, [table |-> table, op |-> "select"])
  /\ failedCalls' = IF ok THEN failedCalls ELSE failedCalls \cup {table}

\* ------------------------------------------------------ access-control gate
\* Mutation: any header that is present is accepted.
StartsWithBearerAnyHeader(authHeader) == authHeader.t = "str"

\* authHeader?.startsWith("Bearer ")
StartsWithBearer(authHeader) ==
  /\ authHeader.t = "str"
  /\ Len(authHeader.v) >= 7
  /\ SubSeq(authHeader.v, 1, 7) = "Bearer "

\* The user a session token belongs to, as the identity service knows it.
SessionUser(authHeader) ==
  CASE authHeader = Str("Bearer tok-eng1") -> Str("eng1")
    [] authHeader = Str("Bearer tok-admin1") -> Str("admin1")
    [] authHeader = Str("Bearer tok-client1") -> Str("client1")
    [] authHeader = Str("Bearer tok-viewer1") -> Str("viewer1")
    [] authHeader = Str("Bearer tok-norole1") -> Str("norole1")
    [] OTHER -> Null

\* What userClient.auth.getUser() can resolve to: the user of a valid token,
\* an error, or neither an error nor a user.
GetUserResults(authHeader) ==
  {[error |-> TRUE, user |-> Null], [error |-> FALSE, user |-> Null]}
  \cup (IF SessionUser(authHeader) = Null THEN {}
        ELSE {[error |-> FALSE, user |-> SessionUser(authHeader)]})

\* Mutation: only authError is checked, a missing user is not.
TokenRejectedErrorOnly(result) == result.error

\* authError || !userData?.user
TokenRejected(result) == result.error \/ ~Truthy(result.user)

\* .from("user_roles").select("role").eq("user_id", userId).single(): the one
\* matching row, or no data when none or several match or the call fails.
RoleLookup(roles, uid, ok) ==
  LET found == Select(Eq(roles, "user_id", uid), {"role"})
  IN IF ok /\ Cardinality(found) = 1 THEN (CHOOSE r \in found : TRUE).role ELSE Null

\* Mutation: only a principal without any role is turned away.
NotAdminMissingRoleOnly(role) == role = Null

\* userRole !== "admin"
NotAdmin(role) == role # Str("admin")

\* Mutation: an unrecognised action falls back to demo_calls.
DispatchWithDefault(action) ==
  CASE action = Str("demo_calls") -> "demo_calls"
    [] action = Str("admin_demo_calls") -> "admin_demo_calls"
    [] action = Str("calls") -> "calls"
    [] action = Str("active_calls") -> "active_calls"
    [] action = Str("today_stats") -> "today_stats"
    [] action = Str("tasks") -> "tasks"
    [] OTHER -> "demo_calls"

\* The handler's position after the role lookup: the if-chain over action.
Dispatch(action) ==
  CASE action = Str("demo_calls") -> "demo_calls"
    [] action = Str("admin_demo_calls") -> "admin_demo_calls"
    [] action = Str("calls") -> "calls"
    [] action = Str("active_calls") -> "active_calls"
    [] action = Str("today_stats") -> "today_stats"
    [] action = Str("tasks") -> "tasks"
    [] OTHER -> "invalid"

\* Mutation: every action asks for the admin role.
AdminOnlyEveryAction == KnownActions

AdminOnly == {"admin_demo_calls", "active_calls", "today_stats"}

\* serve handler up to the first await: the preflight and the header check.
Receive ==
  /\ pc = "idle"
  /\ \E r \in Arrivals(inbox) :
       /\ req' = r
       /\ IF r.method = "OPTIONS" THEN Return(PreflightResponse)
          ELSE IF ~StartsWithBearer(r.authHeader)
               THEN Return(ErrorResponse(401, "Unauthorized"))
               ELSE /\ pc' = "getUser"
                    /\ UNCHANGED resp
  /\ UNCHANGED <<store, authResult, userId, userRole, rows, tasksAux, agentsAux,
                 identityCalls, storeCalls, failedCalls>>
  /\ UNCHANGED outside

\* await userClient.auth.getUser() and the check of its result.
GetUser ==
  /\ pc = "getUser"
  /\ identityCalls' = identityCalls + 1
  /\ \E result \in GetUserResults(req.authHeader) :
       /\ authResult' = result
       /\ IF TokenRejected(result)
          THEN /\ Return(ErrorResponse(401, "Invalid token"))
               /\ UNCHANGED userId
          ELSE /\ userId' = result.user
               /\ pc' = "role"
               /\ UNCHANGED resp
  /\ UNCHANGED <<store, req, userRole, rows, tasksAux, agentsAux, storeCalls,
                 failedCalls>>
  /\ UNCHANGED outside

\* The role lookup and the dispatch on action up to the action's first await.
GetRole ==
  /\ pc = "role"
  /\ \E ok \in BOOLEAN :
       LET role == RoleLookup(store.user_roles, userId, ok)
           target == Dispatch(req.action)
       IN /\ StoreCall("user_roles", ok)
          /\ userRole' = role
          /\ IF target = "invalid"
             THEN Return(ErrorResponse(400, "Invalid action"))
             ELSE IF target \in AdminOnly /\ NotAdmin(role)
                  THEN Return(ErrorResponse(403, "Forbidden"))
                  ELSE /\ pc' = target
                       /\ UNCHANGED resp
  /\ UNCHANGED <<store, req, authResult, userId, rows, tasksAux, agentsAux, identityCalls>>
  /\ UNCHANGED outside

\* -------------------------------------------------------------- demo_calls
DemoCallColumns ==
  {"id", "task_id", "agent_id", "engineer_id", "phone_number", "status",
   "duration_seconds", "created_at", "external_call_id", "recording_url",
   "uploaded_audio_url", "transcript"}

\* The demo_calls query: the engineer_id filter is added for an engineer who
\* passes an engineer_id parameter.
DemoCallsQuery(table, role, engineerId) ==
  LET selected == Select(table, DemoCallColumns)
      filtered == IF role = Str("engineer") /\ Truthy(engineerId)
                  THEN Eq(selected, "engineer_id", engineerId)
                  ELSE selected
  IN OrderDesc(filtered, "created_at")

\* aux?.find(r => r.id === id) || null
Find(aux, id) ==
  IF aux.ok /\ \E r \in aux.rows : r.id = id
  THEN Obj(CHOOSE r \in aux.rows : r.id = id)
  ELSE Null

\* call.transcript ? await encryptData(call.transcript) : null
EncryptField(call, field, seed) ==
  IF Truthy(call[field])
  THEN encryptData(call[field].v, IvFor(seed, call.id.v, field))
  ELSE Null

\* The row mapping of demo_calls.
DemoCallsRow(call, tasks, agents, seed) ==
  [phone_number |-> maskPhone(call.phone_number),
   external_call_id |-> maskUuid(call.external_call_id),
   transcript |-> EncryptField(call, "transcript", seed),
   recording_url |-> proxyRecordingUrl(call.recording_url, call.id),
   uploaded_audio_url |-> proxyRecordingUrl(call.uploaded_audio_url, call.id),
   tasks |-> Find(tasks, call.task_id),
   aitel_agents |-> Find(agents, call.agent_id)] @@ call

\* Whether the mapping of these rows calls encryptData at all.
DemoEncrypts(fetched) == \E i \in 1..Len(fetched) : Truthy(fetched[i].transcript)

\* await query, and the check of demoError.
DemoCallsFetch ==
  /\ pc = "demo_calls"
  /\ \E ok \in BOOLEAN :
       /\ StoreCall("demo_calls", ok)
       /\ IF ok
          THEN /\ rows' = DemoCallsQuery(store.demo_calls, userRole, req.engineer_id)
               /\ pc' = "demo_tasks"
               /\ UNCHANGED resp
          ELSE /\ Return(ErrorResponse(500, StoreErrorMessage("demo_calls")))
               /\ UNCHANGED rows
  /\ UNCHANGED <<store, req, authResult, userId, userRole, tasksAux, agentsAux, identityCalls>>
  /\ UNCHANGED outside

\* The auxiliary fetch of tasks; its error is not read.
DemoTasksResult(tasks, demoCalls, ok) ==
  [ok |-> ok,
   rows |-> IF ok
            THEN Select(In(tasks, "id", {demoCalls[i].task_id : i \in 1..Len(demoCalls)}),
                        {"id", "title", "selected_demo_call_id", "assigned_to"})
            ELSE {}]

DemoCallsTasks ==
  /\ pc = "demo_tasks"
  /\ \E ok \in BOOLEAN :
       /\ StoreCall("tasks", ok)
       /\ tasksAux' = DemoTasksResult(store.tasks, rows, ok)
  /\ pc' = "demo_agents"
  /\ UNCHANGED <<store, req, authResult, userId, userRole, rows, agentsAux, resp, identityCalls>>
  /\ UNCHANGED outside

\* The auxiliary fetch of aitel_agents; its error is not read.
DemoAgentsResult(agents, demoCalls, ok) ==
  [ok |-> ok,
   rows |-> IF ok
            THEN Select(In(agents, "id", {demoCalls[i].agent_id : i \in 1..Len(demoCalls)}),
                        {"id", "agent_name"})
            ELSE {}]

DemoCallsAgents ==
  /\ pc = "demo_agents"
  /\ \E ok \in BOOLEAN :
       /\ StoreCall("aitel_agents", ok)
       /\ agentsAux' = DemoAgentsResult(store.aitel_agents, rows, ok)
  /\ pc' = "demo_map"
  /\ UNCHANGED <<store, req, authResult, userId, userRole, rows, tasksAux, resp, identityCalls>>
  /\ UNCHANGED outside

\* Promise.all over the row mapping: the response, or the catch block when an
\* encryption rejects.
DemoCallsRespond ==
  /\ pc = "demo_map"
  /\ \E seed \in 1..NumNonces, encOk \in BOOLEAN :
       /\ encOk \/ DemoEncrypts(rows)
       /\ IF encOk
          THEN /\ Return(RowsResponse(
                    [i \in 1..Len(rows) |->
                       DemoCallsRow(rows[i], tasksAux, agentsAux, seed)]))
               /\ UNCHANGED failedCalls
          ELSE /\ Return(CatchResponse)
               /\ failedCalls' = failedCalls \cup {"encrypt"}
  /\ UNCHANGED <<store, req, authResult, userId, userRole, rows, tasksAux, agentsAux,
                 identityCalls, storeCalls>>
  /\ UNCHANGED outside

\* -------------------------------------------------------- admin_demo_calls
\* The row mapping of admin_demo_calls.
AdminDemoCallsRow(call, seed) ==
  [phone_number |-> maskPhone(call.phone_number),
   external_call_id |-> maskUuid(call.external_call_id),
   transcript |-> EncryptField(call, "transcript", seed),
   recording_url |-> proxyRecordingUrl(call.recording_url, call.id),
   uploaded_audio_url |-> proxyRecordingUrl(call.uploaded_audio_url, call.id)] @@ call

AdminDemoCallsFetch ==
  /\ pc = "admin_demo_calls"
  /\ \E ok \in BOOLEAN :
       /\ StoreCall("demo_calls", ok)
       /\ IF ok
          THEN /\ rows' = OrderDesc(store.demo_calls, "created_at")
               /\ pc' = "admin_demo_map"
               /\ UNCHANGED resp
          ELSE /\ Return(ErrorResponse(500, StoreErrorMessage("demo_calls")))
               /\ UNCHANGED rows
  /\ UNCHANGED <<store, req, authResult, userId, userRole, tasksAux, agentsAux, identityCalls>>
  /\ UNCHANGED outside

AdminDemoCallsRespond ==
  /\ pc = "admin_demo_map"
  /\ \E seed \in 1..NumNonces, encOk \in BOOLEAN :
       /\ encOk \/ DemoEncrypts(rows)
       /\ IF encOk
          THEN /\ Return(RowsResponse([i \in 1..Len(rows) |-> AdminDemoCallsRow(rows[i], seed)]))
               /\ UNCHANGED failedCalls
          ELSE /\ Return(CatchResponse)
               /\ failedCalls' = failedCalls \cup {"encrypt"}
  /\ UNCHANGED <<store, req, authResult, userId, userRole, rows, tasksAux, agentsAux,
                 identityCalls, storeCalls>>
  /\ UNCHANGED outside

\* ------------------------------------------------------------------- calls
CallColumns ==
  {"id", "agent_id", "client_id", "lead_id", "status", "connected",
   "duration_seconds", "created_at", "sentiment", "summary", "transcript",
   "recording_url", "external_call_id", "metadata"}

\* Mutation: the client_id filter is left out.
CallsQueryNoClientFilter(table, startDate, clientId, statusFilter) ==
  LET selected == Select(table, CallColumns)
      byDate == IF Truthy(startDate) THEN Gte(selected, "created_at", startDate.v)
                ELSE selected
      byStatus == IF Truthy(statusFilter) /\ statusFilter # Str("all")
                  THEN Eq(byDate, "status", statusFilter)
                  ELSE byDate
  IN OrderDesc(byStatus, "created_at")

\* The calls query with its three optional filters.
CallsQuery(table, startDate, clientId, statusFilter) ==
  LET selected == Select(table, CallColumns)
      byDate == IF Truthy(startDate) THEN Gte(selected, "created_at", startDate.v)
                ELSE selected
      byClient == IF Truthy(clientId) THEN Eq(byDate, "client_id", clientId) ELSE byDate
      byStatus == IF Truthy(statusFilter) /\ statusFilter # Str("all")
                  THEN Eq(byClient, "status", statusFilter)
                  ELSE byClient
  IN OrderDesc(byStatus, "created_at")

\* The row mapping of active_calls.
ActiveCallsRow(call, seed) ==
  [lead_id |-> maskUuid(call.lead_id),
   transcript |-> EncryptField(call, "transcript", seed),
   summary |-> EncryptField(call, "summary", seed),
   recording_url |-> proxyRecordingUrl(call.recording_url, call.id),
   metadata |-> sanitizeMetadata(call.metadata, IvFor(seed, call.id.v, "extracted_data"))]
  @@ call

\* The row mapping of calls: that of active_calls and a fixed agent name.
CallsRow(call, seed) ==
  [agent |-> Obj([name |-> Str("Agent")])] @@ ActiveCallsRow(call, seed)

\* Whether the mapping of these rows calls encryptData at all.
CallEncrypts(fetched) ==
  \E i \in 1..Len(fetched) :
    \/ Truthy(fetched[i].transcript)
    \/ Truthy(fetched[i].summary)
    \/ MetadataEncrypts(fetched[i].metadata)

CallsFetch ==
  /\ pc = "calls"
  /\ \E ok \in BOOLEAN :
       /\ StoreCall("calls", ok)
       /\ IF ok
          THEN /\ rows' = CallsQuery(store.calls, req.start_date, req.client_id, req.status)
               /\ pc' = "calls_map"
               /\ UNCHANGED resp
          ELSE /\ Return(ErrorResponse(500, StoreErrorMessage("calls")))
               /\ UNCHANGED rows
  /\ UNCHANGED <<store, req, authResult, userId, userRole, tasksAux, agentsAux, identityCalls>>
  /\ UNCHANGED outside

CallsRespond ==
  /\ pc = "calls_map"
  /\ \E seed \in 1..NumNonces, encOk \in BOOLEAN :
       /\ encOk \/ CallEncrypts(rows)
       /\ IF encOk
          THEN /\ Return(RowsResponse([i \in 1..Len(rows) |-> CallsRow(rows[i], seed)]))
               /\ UNCHANGED failedCalls
          ELSE /\ Return(CatchResponse)
               /\ failedCalls' = failedCalls \cup {"encrypt"}
  /\ UNCHANGED <<store, req, authResult, userId, userRole, rows, tasksAux, agentsAux,
                 identityCalls, storeCalls>>
  /\ UNCHANGED outside

\* ------------------------------------------------------------ active_calls
ActiveCallsQuery(table) ==
  OrderDesc(In(table, "status", {Str("initiated"), Str("in_progress")}), "created_at")

ActiveCallsFetch ==
  /\ pc = "active_calls"
  /\ \E ok \in BOOLEAN :
       /\ StoreCall("calls", ok)
       /\ IF ok
          THEN /\ rows' = ActiveCallsQuery(store.calls)
               /\ pc' = "active_map"
               /\ UNCHANGED resp
          ELSE /\ Return(ErrorResponse(500, StoreErrorMessage("calls")))
               /\ UNCHANGED rows
  /\ UNCHANGED <<store, req, authResult, userId, userRole, tasksAux, agentsAux, identityCalls>>
  /\ UNCHANGED outside

ActiveCallsRespond ==
  /\ pc = "active_map"
  /\ \E seed \in 1..NumNonces, encOk \in BOOLEAN :
       /\ encOk \/ CallEncrypts(rows)
       /\ IF encOk
          THEN /\ Return(RowsResponse([i \in 1..Len(rows) |-> ActiveCallsRow(rows[i], seed)]))
               /\ UNCHANGED failedCalls
          ELSE /\ Return(CatchResponse)
               /\ failedCalls' = failedCalls \cup {"encrypt"}
  /\ UNCHANGED <<store, req, authResult, userId, userRole, rows, tasksAux, agentsAux,
                 identityCalls, storeCalls>>
  /\ UNCHANGED outside

\* ------------------------------------------------------------- today_stats
\* Local midnight of the day of the request, on the time scale of created_at.
Midnights == {1, 3}

\* Math.round(n / d) for n >= 0 and d > 0.
Round(n, d) == (2 * n + d) \div (2 * d)

\* ---- IEEE 754 double arithmetic of (connected / total) * 100
\* A double in [1, 256) * 2^-e is kept as its integer part I and the 52 bits
\* after the binary point of its 60-bit significand window, in limbs of 20, 20
\* and 12 bits: value = (I + (f1 * 2^32 + f2 * 2^12 + f3) / 2^52) / 2^e.
RECURSIVE Pow2(_)
Pow2(n) == IF n = 0 THEN 1 ELSE 2 * Pow2(n - 1)

RECURSIVE Exponent(_, _)
\* The least e with c * 2^e >= t, for 0 < c <= t.
Exponent(c, t) == IF c >= t THEN 0 ELSE 1 + Exponent(2 * c, t)

\* The double nearest to c / t (ties to even), for 0 < c <= t.
Divide(c, t) ==
  LET e == Exponent(c, t)
      r0 == (c * Pow2(e)) - t
      d1 == (r0 * Pow2(20)) \div t
      r1 == (r0 * Pow2(20)) % t
      d2 == (r1 * Pow2(20)) \div t
      r2 == (r1 * Pow2(20)) % t
      d3 == (r2 * Pow2(20)) \div t
      r3 == (r2 * Pow2(20)) % t
      keep == d3 \div 256
      low == d3 % 256
      up == low > 128 \/ (low = 128 /\ (r3 # 0 \/ keep % 2 = 1))
      g3 == keep + (IF up THEN 1 ELSE 0)
      g2 == d2 + (g3 \div Pow2(12))
      g1 == d1 + (g2 \div Pow2(20))
  IN [e |-> e, I |-> 1 + (g1 \div Pow2(20)), f1 |-> g1 % Pow2(20), f2 |-> g2 % Pow2(20),
      f3 |-> g3 % Pow2(12)]

\* The double nearest to x * 100 (ties to even).
Times100(x) ==
  LET q3 == 100 * x.f3
      q2 == (100 * x.f2) + (q3 \div Pow2(12))
      q1 == (100 * x.f1) + (q2 \div Pow2(20))
      p0 == (100 * x.I) + (q1 \div Pow2(20))
      p3 == q3 % Pow2(12)
      k == IF p0 < 128 THEN 6 ELSE 7
      keep == p3 \div Pow2(k)
      low == p3 % Pow2(k)
      up == low > Pow2(k - 1) \/ (low = Pow2(k - 1) /\ keep % 2 = 1)
      g3 == (keep + (IF up THEN 1 ELSE 0)) * Pow2(k)
      g2 == (q2 % Pow2(20)) + (g3 \div Pow2(12))
      g1 == (q1 % Pow2(20)) + (g2 \div Pow2(20))
  IN [e |-> x.e, I |-> p0 + (g1 \div Pow2(20)), f1 |-> g1 % Pow2(20), f2 |-> g2 % Pow2(20),
      f3 |-> g3 % Pow2(12)]

\* Math.round(y): the integer nearest to y, a tie going up.
MathRound(y) ==
  IF y.e = 0 THEN y.I + (IF y.f1 >= Pow2(19) THEN 1 ELSE 0)
  ELSE (y.I + Pow2(y.e - 1)) \div Pow2(y.e)

\* Math.round((connected / total) * 100), for 0 <= connected <= total, total > 0.
ConnectionRate(connected, total) ==
  IF connected = 0 THEN 0 ELSE MathRound(Times100(Divide(connected, total)))

\* select("status, connected, duration_seconds").gte("created_at", today)
TodayStatsQuery(table, today) ==
  LET found == OrderDesc(Gte(table, "created_at", today), "created_at")
  IN [i \in 1..Len(found) |->
        [c \in {"status", "connected", "duration_seconds"} |-> found[i][c]]]

RECURSIVE SumDurations(_)
\* reduce((sum, c) => sum + (c.duration_seconds || 0), 0)
SumDurations(cs) ==
  IF cs = <<>> THEN 0
  ELSE (IF Truthy(Head(cs).duration_seconds) THEN Head(cs).duration_seconds.v ELSE 0)
       + SumDurations(Tail(cs))

\* The aggregate of today_stats over the fetched rows.
TodayStats(todayCalls) ==
  LET total == Len(todayCalls)
      connected == Cardinality({i \in 1..total : Truthy(todayCalls[i].connected)})
  IN [total |-> total,
      completed |-> Cardinality({i \in 1..total : todayCalls[i].status = Str("completed")}),
      connected |-> connected,
      failed |-> Cardinality({i \in 1..total : todayCalls[i].status = Str("failed")}),
      inProgress |-> Cardinality({i \in 1..total :
                                   todayCalls[i].status
                                     \in {Str("initiated"), Str("in_progress")}}),
      connectionRate |-> IF total > 0 THEN ConnectionRate(connected, total) ELSE 0,
      avgDuration |-> IF total > 0 THEN Round(SumDurations(todayCalls), total) ELSE 0]

TodayStatsFetch ==
  /\ pc = "today_stats"
  /\ \E ok \in BOOLEAN, today \in Midnights :
       /\ StoreCall("calls", ok)
       /\ IF ok
          THEN Return(StatsResponse(TodayStats(TodayStatsQuery(store.calls, today))))
          ELSE Return(ErrorResponse(500, StoreErrorMessage("calls")))
  /\ UNCHANGED <<store, req, authResult, userId, userRole, rows, tasksAux, agentsAux,
                 identityCalls>>
  /\ UNCHANGED outside

\* ------------------------------------------------------------------- tasks
\* obj.key of a JavaScript object: undefined (falsy) when the key is missing.
Get(obj, key) == IF key \in DOMAIN obj THEN obj[key] ELSE Null

\* select("*, aitel_agents(agent_name, external_agent_id)") with the two filters.
TasksQuery(tasks, agents, assignedTo, status) ==
  LET byAssignee == IF Truthy(assignedTo) THEN Eq(tasks, "assigned_to", assignedTo)
                    ELSE tasks
      byStatus == IF Truthy(status) THEN Eq(byAssignee, "status", status) ELSE byAssignee
      Embed(task) ==
        IF \E a \in agents : a.id = task.agent_id
        THEN LET a == CHOOSE x \in agents : x.id = task.agent_id
             IN Obj([agent_name |-> a.agent_name,
                     external_agent_id |-> a.external_agent_id])
        ELSE Null
  IN OrderDesc({[aitel_agents |-> Embed(task)] @@ task : task \in byStatus}, "created_at")

\* Mutation: the joined agent is returned as fetched.
TasksRowUnmasked(task) == task

\* The row mapping of tasks.
TasksRow(task) ==
  [aitel_agents |->
     IF Truthy(task.aitel_agents)
     THEN Obj([external_agent_id |-> maskUuid(Get(task.aitel_agents.v, "external_agent_id")),
               current_system_prompt |->
                 maskSystemPrompt(Get(task.aitel_agents.v, "current_system_prompt")),
               original_system_prompt |->
                 maskSystemPrompt(Get(task.aitel_agents.v, "original_system_prompt"))]
              @@ task.aitel_agents.v)
     ELSE Null] @@ task

TasksFetch ==
  /\ pc = "tasks"
  /\ \E ok \in BOOLEAN :
       /\ StoreCall("tasks", ok)
       /\ IF ok
          THEN LET data == TasksQuery(store.tasks, store.aitel_agents,
                                      req.assigned_to, req.status)
               IN Return(RowsResponse([i \in 1..Len(data) |-> TasksRow(data[i])]))
          ELSE Return(ErrorResponse(500, StoreErrorMessage("tasks")))
  /\ UNCHANGED <<store, req, authResult, userId, userRole, rows, tasksAux, agentsAux,
                 identityCalls>>
  /\ UNCHANGED outside

\* The response has been sent: the handler's locals are gone and the next
\* request can be served.
Complete ==
  /\ pc = "done"
  /\ pc' = "idle"
  /\ req' = BaseRequest("GET", Null, Null)
  /\ authResult' = NoAuthResult
  /\ userId' = Null
  /\ userRole' = Null
  /\ rows' = <<>>
  /\ tasksAux' = NoAux
  /\ agentsAux' = NoAux
  /\ resp' = NoResponse
  /\ identityCalls' = 0
  /\ storeCalls' = <<>>
  /\ failedCalls' = {}
  /\ UNCHANGED store
  /\ UNCHANGED outside

\* ----------------------------------------------------------- specification
Next ==
  \/ Receive
  \/ Complete
  \/ GetUser
  \/ GetRole
  \/ DemoCallsFetch
  \/ DemoCallsTasks
  \/ DemoCallsAgents
  \/ DemoCallsRespond
  \/ AdminDemoCallsFetch
  \/ AdminDemoCallsRespond
  \/ CallsFetch
  \/ CallsRespond
  \/ ActiveCallsFetch
  \/ ActiveCallsRespond
  \/ TodayStatsFetch
  \/ TasksFetch

Spec == Init /\ [][Next]_vars

\* Every await of the handler settles: a handler that can take a step takes it.
LiveSpec == Spec /\ WF_vars(Next)

\* ===================================================== concurrent requests
\* Two invocations of the handler in one process.  One of them runs; the other
\* is suspended at an await (or has not started, or has returned) and its
\* locals are kept in other.  The runtime switches between them at any await.

\* The locals of the running invocation.
Locals ==
  [pc |-> pc, req |-> req, authResult |-> authResult, userId |-> userId,
   userRole |-> userRole, rows |-> rows, tasksAux |-> tasksAux, agentsAux |-> agentsAux,
   resp |-> resp, identityCalls |-> identityCalls, storeCalls |-> storeCalls,
   failedCalls |-> failedCalls]

\* Mutation: userRole is one variable of the module, shared by the invocations.
ResumeSharedRole(saved, running) == [saved EXCEPT !.userRole = running.userRole]

\* What a suspended invocation finds when it resumes: every variable of the
\* handler is a const of its own closure, so it finds what it left.
Resume(saved, running) == saved

\* The running invocation is suspended and the other one resumes.
Switch ==
  /\ other # Locals
  /\ LET mine == Resume(other, Locals)
     IN /\ pc' = mine.pc
        /\ req' = mine.req
        /\ authResult' = mine.authResult
        /\ userId' = mine.userId
        /\ userRole' = mine.userRole
        /\ rows' = mine.rows
        /\ tasksAux' = mine.tasksAux
        /\ agentsAux' = mine.agentsAux
        /\ resp' = mine.resp
        /\ identityCalls' = mine.identityCalls
        /\ storeCalls' = mine.storeCalls
        /\ failedCalls' = mine.failedCalls
  /\ other' = Locals
  /\ UNCHANGED <<store, inbox, helper, hook, otp>>

\* The store both invocations read.
SharedStore ==
  [user_roles |-> UserRoles,
   demo_calls |-> {d \in DemoCallPool : d.id \in {Str("d1"), Str("d2")}},
   calls |-> {c \in CallPool : c.id \in {Str("c1"), Str("c2")}},
   tasks |-> TaskRows, aitel_agents |-> AgentRows]

ConcInit ==
  /\ store = SharedStore
  /\ inbox = "pair"
  /\ Idle
  /\ hook = NoHook
  /\ otp = NoOtp

ConcNext ==
  \/ Receive
  \/ GetUser
  \/ GetRole
  \/ DemoCallsFetch
  \/ DemoCallsTasks
  \/ DemoCallsAgents
  \/ DemoCallsRespond
  \/ AdminDemoCallsFetch
  \/ AdminDemoCallsRespond
  \/ CallsFetch
  \/ CallsRespond
  \/ ActiveCallsFetch
  \/ ActiveCallsRespond
  \/ TodayStatsFetch
  \/ TasksFetch
  \/ Complete
  \/ Switch

ConcSpec == ConcInit /\ [][ConcNext]_vars

\* ======================================================== helper functions
\* The helper functions applied on their own, to arguments drawn at the start.

\* The result of a helper that has not returned yet.
Pending == [t |-> "pending"]

\* The object with the keys of the record r whose value is not Absent.
Present(r) == Obj([k \in {x \in DOMAIN r : r[x] # Absent} |-> r[k]])

\* Metadata objects: every allow-listed key absent, falsy or truthy, a key
\* outside the allow-list, and extracted_data of every shape.
MetadataInputs ==
  {Null} \cup
  { Present(r) : r \in
      [source : {Absent, Str("fb"), Str("")},
       is_retry : {Absent, Bool(FALSE), Bool(TRUE)},
       lead_name : {Absent, Str("Jane")},
       campaign_id : {Absent, Str("camp-7")},
       aitel_status : {Absent, Str("")},
       error_message : {Absent, Str("busy")},
       retry_attempt : {Absent, Num(0)},
       answered_by_voicemail : {Absent, Bool(FALSE)},
       secret_token : {Absent, Str("xyz")},
       extracted_data : {Absent, Null, Str("budget 5L"), Str(""), Num(0),
                         Obj([budget |-> Num(5), city |-> Str("Pune")])}] }

RECURSIVE Strings(_, _)
\* The strings of at most n characters of the alphabet.
Strings(alphabet, n) ==
  IF n = 0 THEN {""}
  ELSE LET shorter == Strings(alphabet, n - 1)
       IN shorter \cup {s \o c : s \in shorter, c \in alphabet}

PhoneInputs ==
  {Null, Str("9876543210"), Str("12")}
    \cup {Str(s) : s \in Strings({"4", "7"}, MaxPhoneLen)}

UuidInputs ==
  {Null, Str("a1b2c3d4e5f6"), Str("L1")}
    \cup {Str(s) : s \in Strings({"a", "f"}, MaxIdLen)}

\* Identifiers a stored row can carry: none, empty, short, eight characters, long.
IdSamples == {Null, Str(""), Str("L1"), Str("a1b2c3d4"), Str("a1b2c3d4e5f6")}

\* The rows of a day with total calls of which the first connected calls were
\* connected.
DayOf(connected, total) ==
  [i \in 1..total |->
     [status |-> Str("completed"), connected |-> Bool(i <= connected),
      duration_seconds |-> Num(60)]]

\* Rows of every status, with and without a connection and a duration.
StatRows ==
  { [status |-> Str("completed"), connected |-> Bool(TRUE), duration_seconds |-> Num(60)],
    [status |-> Str("completed"), connected |-> Bool(TRUE), duration_seconds |-> Num(31)],
    [status |-> Str("failed"), connected |-> Bool(FALSE), duration_seconds |-> Null],
    [status |-> Str("in_progress"), connected |-> Null, duration_seconds |-> Num(0)],
    [status |-> Str("initiated"), connected |-> Null, duration_seconds |-> Null],
    [status |-> Str("no_answer"), connected |-> Bool(FALSE), duration_seconds |-> Num(4)] }

\* The days today_stats aggregates, each given by its numbers of calls and of
\* connected calls and by further rows: every number of connected calls of
\* every total, and every day of at most two rows of any kind.
DayInputs ==
  {d \in [connected : 0..MaxToday, total : 0..MaxToday, rest : {<<>>}] :
     d.connected <= d.total}
    \cup {[connected |-> 0, total |-> 0, rest |-> r] :
            r \in {<<>>} \cup {<<a>> : a \in StatRows}
                         \cup {<<a, b>> : a \in StatRows, b \in StatRows}}

\* The rows fetched on the day.
RowsOfDay(day) == DayOf(day.connected, day.total) \o day.rest

\* Non-empty texts the proxy encrypts.
Plaintexts ==
  {"hello", "secret of eng2", "{\"budget\":5,\"city\":\"Pune\"}"}
    \cup (Strings({"h", "i"}, 3) \ {""})

\* The nonces of the envelopes handed to decryptData.
Nonces == {IvFor(n, "row", "transcript") : n \in 1..NumNonces}

\* Every way to change one field of an envelope: a ciphertext that opens to
\* another text or was made under another key or nonce, another nonce, a tag
\* of another text, key or nonce, and noise in any of the three.
Tampered(envelope) ==
  LET c == envelope.ciphertext
      g == envelope.tag
      otherIv == IvFor(0, "row", "transcript")
      noise == [sealed |-> "", key |-> "", iv |-> IvFor(0, "", "")]
      noiseTag == [mac |-> "", key |-> "", iv |-> IvFor(0, "", "")]
  IN {[envelope EXCEPT !.ciphertext = x] :
        x \in {[c EXCEPT !.sealed = s] : s \in Plaintexts \ {c.sealed}}
                \cup {[c EXCEPT !.key = "key-2"], [c EXCEPT !.iv = otherIv], noise}}
     \cup {[envelope EXCEPT !.iv = otherIv]}
     \cup {[envelope EXCEPT !.tag = x] :
             x \in {[g EXCEPT !.mac = s] : s \in Plaintexts \ {g.mac}}
                     \cup {[g EXCEPT !.key = "key-2"], [g EXCEPT !.iv = otherIv], noiseTag}}

\* Envelopes that lack a field or name another algorithm, and values that are
\* not envelopes.
Malformed(envelope) ==
  {[envelope EXCEPT !.iv = Missing], [envelope EXCEPT !.ciphertext = Missing],
   [envelope EXCEPT !.tag = Missing], [envelope EXCEPT !.algorithm = "AES-128-CBC"],
   Null, Str(envelope.ciphertext.sealed)}

\* What decryptData is applied to: the payload, the key of the process, and
\* the text the payload was made from before it was changed.
DecryptInputs ==
  UNION { LET e == encryptData(s, iv)
          IN {[payload |-> e, key |-> EncryptionKey, plaintext |-> s, change |-> "none"],
              [payload |-> e, key |-> "key-2", plaintext |-> s, change |-> "key"]}
             \cup {[payload |-> p, key |-> EncryptionKey, plaintext |-> s,
                    change |-> "tamper"] : p \in Tampered(e)}
             \cup {[payload |-> p, key |-> EncryptionKey, plaintext |-> s,
                    change |-> "shape"] : p \in Malformed(e)}
          : s \in Plaintexts, iv \in Nonces }

\* The arguments a helper is applied to.
HelperInputs(fn) ==
  CASE fn = "sanitizeMetadata" -> MetadataInputs
    [] fn = "maskPhone" -> PhoneInputs
    [] fn = "maskUuid" -> UuidInputs
    [] fn = "TodayStats" -> DayInputs
    [] fn = "encryptData" -> {Str(s) : s \in Plaintexts \cup {""}}
    [] fn = "decryptData" -> DecryptInputs
    [] fn \in {"CallsRow", "ActiveCallsRow"} ->
         {[c EXCEPT !.lead_id = id] : c \in CallPool, id \in IdSamples}
    [] fn = "DemoCallsRow" ->
         {[d EXCEPT !.external_call_id = id] : d \in DemoCallPool, id \in IdSamples}
    [] OTHER -> {}

HelperNames ==
  {"sanitizeMetadata", "maskPhone", "maskUuid", "CallsRow", "ActiveCallsRow",
   "DemoCallsRow", "TodayStats", "encryptData", "decryptData"}

HelperInit ==
  /\ store = [user_roles |-> UserRoles, demo_calls |-> {}, calls |-> {},
              tasks |-> TaskRows, aitel_agents |-> AgentRows]
  /\ inbox = "any"
  /\ pc = "idle"
  /\ req = BaseRequest("GET", Null, Null)
  /\ authResult = NoAuthResult
  /\ userId = Null
  /\ userRole = Null
  /\ rows = <<>>
  /\ tasksAux = NoAux
  /\ agentsAux = NoAux
  /\ resp = NoResponse
  /\ identityCalls = 0
  /\ storeCalls = <<>>
  /\ failedCalls = {}
  /\ other = IdleLocals
  /\ hook = NoHook
  /\ otp = NoOtp
  /\ \E fn \in HelperNames, seed \in 1..NumNonces :
       \E arg \in HelperInputs(fn) :
         helper = [fn |-> fn, arg |-> arg, seed |-> seed, out |-> Pending]

\* The helper fn returns result.
HelperReturns(fn, result) ==
  /\ helper.fn = fn
  /\ helper.out = Pending
  /\ helper' = [helper EXCEPT !.out = result]
  /\ UNCHANGED <<store, pc, req, authResult, userId, userRole, rows, tasksAux,
                 agentsAux, resp, identityCalls, storeCalls, failedCalls, other, inbox,
                 hook, otp>>

ApplySanitizeMetadata ==
  HelperReturns("sanitizeMetadata",
                sanitizeMetadata(helper.arg, IvFor(helper.seed, "row", "extracted_data")))

ApplyMaskPhone == HelperReturns("maskPhone", maskPhone(helper.arg))

ApplyMaskUuid == HelperReturns("maskUuid", maskUuid(helper.arg))

\* The row mappings applied to one fetched row.
ApplyCallsRow == HelperReturns("CallsRow", CallsRow(helper.arg, helper.seed))

ApplyActiveCallsRow ==
  HelperReturns("ActiveCallsRow", ActiveCallsRow(helper.arg, helper.seed))

ApplyDemoCallsRow ==
  HelperReturns("DemoCallsRow", DemoCallsRow(helper.arg, NoAux, NoAux, helper.seed))

\* The aggregate of today_stats applied to the rows of one day.
ApplyTodayStats == HelperReturns("TodayStats", TodayStats(RowsOfDay(helper.arg)))

\* encryptData applied to a text, under a fresh nonce.
ApplyEncryptData ==
  HelperReturns("encryptData",
                encryptData(helper.arg.v, IvFor(helper.seed, "row", "transcript")))

ApplyDecryptData ==
  HelperReturns("decryptData", decryptData(helper.arg.payload, helper.arg.key))

HelperNext ==
  \/ ApplyEncryptData
  \/ ApplyDecryptData
  \/ ApplyTodayStats
  \/ ApplySanitizeMetadata
  \/ ApplyMaskPhone
  \/ ApplyMaskUuid
  \/ ApplyCallsRow
  \/ ApplyActiveCallsRow
  \/ ApplyDemoCallsRow

HelperSpec == HelperInit /\ [][HelperNext]_vars

\* ==================================================== webhook handler: steps
\* What the steps of the webhook handler leave alone.
besideHook == <<store, pc, req, authResult, userId, userRole, rows, tasksAux, agentsAux,
                resp, identityCalls, storeCalls, failedCalls, other, inbox, helper, otp>>

\* The row with the fields of the patch replaced (update(patch)).
Patched(row, patch) ==
  [f \in DOMAIN row |-> IF f \in DOMAIN patch THEN patch[f] ELSE row[f]]

\* update(patch).eq("id", id) on a table.  A null id matches no row.
UpdateById(table, id, patch) ==
  {IF Str(r.id) = id THEN Patched(r, patch) ELSE r : r \in table}

\* Mutation: the lookup's error is not tested.
CallFoundIgnoringError(ok, found) ==
  IF found # {} THEN CallRead(CHOOSE c \in found : TRUE) ELSE Null

\* data of select("*").eq("external_call_id", call_id).maybeSingle(): the
\* row when the query succeeds with exactly one match, else nothing (no
\* match leaves data null; several matches or a failure give an error).
CallFound(ok, found) ==
  IF ok /\ Cardinality(found) = 1 THEN CallRead(CHOOSE c \in found : TRUE) ELSE Null

\* The events with a case in the switch.
HandledEvents ==
  {"call.ringing", "call.answered", "call.connected", "call.ended", "call.completed",
   "call.failed", "call.no_answer"}

\* The events whose case updates the lead as well.
LeadEvents == HandledEvents \ {"call.ringing"}

\* payload.duration || 0
DurationSeconds(payload) == IF Truthy(payload.duration) THEN payload.duration.v ELSE 0

\* durationSeconds >= 45
IsConnected(payload) == DurationSeconds(payload) >= 45

\* { ...call.metadata, recording_url, transcript } as it is stored: a key
\* whose value is undefined is left out when the object is serialised.
EndedMetadata(metadata, payload) ==
  LET old == IF metadata.t = "obj" THEN metadata.v ELSE << >>
      new == {k \in {"recording_url", "transcript"} : payload[k] # Absent}
      keys == (DOMAIN old \ {"recording_url", "transcript"}) \cup new
  IN  Obj([k \in keys |-> IF k \in new THEN payload[k] ELSE old[k]])

\* The patch the event's case applies to the call.
CallPatch(payload, call) ==
  CASE payload.event = "call.ringing" -> [status |-> "ringing"]
    [] payload.event \in {"call.answered", "call.connected"} -> [status |-> "in_progress"]
    [] payload.event \in {"call.ended", "call.completed"} ->
         [status |-> "completed",
          duration_seconds |-> Num(DurationSeconds(payload)),
          connected |-> Bool(IsConnected(payload)),
          ended_at |-> Str("now"),
          metadata |-> EndedMetadata(call.metadata, payload)]
    [] payload.event \in {"call.failed", "call.no_answer"} ->
         [status |-> IF payload.event = "call.no_answer" THEN "no_answer" ELSE "failed",
          ended_at |-> Str("now")]

\* The patch the event's case applies to the lead.
LeadPatch(payload) ==
  CASE payload.event \in {"call.answered", "call.connected"} -> [status |-> "connected"]
    [] payload.event \in {"call.ended", "call.completed"} ->
         [status |-> IF IsConnected(payload) THEN "connected" ELSE "completed"]
    [] payload.event \in {"call.failed", "call.no_answer"} -> [status |-> "failed"]

\* A request arrives: a preflight is answered at once, and a body that is
\* not an object makes the handler throw into its catch.
WebhookReceive(h) ==
  /\ hook.w[h].pc = "idle"
  /\ \E method \in {"OPTIONS", "POST"}, payload \in WebhookPayloads :
       hook' = [hook EXCEPT !.w[h] =
                  IF method = "OPTIONS"
                  THEN [HookIdle EXCEPT !.pc = "done", !.resp = HookPreflight]
                  ELSE IF payload = Null
                  THEN [HookIdle EXCEPT !.pc = "done", !.resp = HookCatch]
                  ELSE [HookIdle EXCEPT !.pc = "lookup", !.payload = payload]]
  /\ UNCHANGED besideHook

\* The call is looked up; not found is answered 404, and an event without a
\* case is answered with success.
WebhookLookup(h) ==
  /\ hook.w[h].pc = "lookup"
  /\ \E ok \in BOOLEAN :
       LET payload == hook.w[h].payload
           found == {c \in hook.calls : Str(c.external_call_id) = Str(payload.call_id)}
           call == CallFound(ok, found)
           seen == [hook.w[h] EXCEPT !.call = call,
                                     !.lookup = IF ok THEN "ok" ELSE "failed"]
       IN  hook' = [hook EXCEPT !.w[h] =
                      IF call = Null
                      THEN [seen EXCEPT !.pc = "done", !.resp = HookNotFound]
                      ELSE IF payload.event \in HandledEvents
                      THEN [seen EXCEPT !.pc = "update_call"]
                      ELSE [seen EXCEPT !.pc = "done", !.resp = HookSuccess]]
  /\ UNCHANGED besideHook

\* The call is updated; the result of the update is not read, so a failed
\* update goes unnoticed.
WebhookUpdateCall(h) ==
  /\ hook.w[h].pc = "update_call"
  /\ \E ok \in BOOLEAN :
       LET me == hook.w[h]
           issued == [me EXCEPT !.updates = Append(@, [table |-> "calls", ok |-> ok])]
       IN  hook' = [hook EXCEPT
                      !.calls = IF ok THEN UpdateById(@, Str(me.call.id),
                                                      CallPatch(me.payload, me.call))
                                ELSE @,
                      !.w[h] = IF me.payload.event \in LeadEvents
                               THEN [issued EXCEPT !.pc = "update_lead"]
                               ELSE [issued EXCEPT !.pc = "done", !.resp = HookSuccess]]
  /\ UNCHANGED besideHook

\* The lead is updated, again without reading the result.
WebhookUpdateLead(h) ==
  /\ hook.w[h].pc = "update_lead"
  /\ \E ok \in BOOLEAN :
       LET me == hook.w[h]
       IN  hook' = [hook EXCEPT
                      !.leads = IF ok THEN UpdateById(@, me.call.lead_id, LeadPatch(me.payload))
                                ELSE @,
                      !.w[h] = [me EXCEPT !.updates = Append(@, [table |-> "leads", ok |-> ok]),
                                          !.pc = "done", !.resp = HookSuccess]]
  /\ UNCHANGED besideHook

\* The response is delivered and the invocation ends.
WebhookComplete(h) ==
  /\ hook.w[h].pc = "done"
  /\ hook' = [hook EXCEPT !.w[h] = HookIdle]
  /\ UNCHANGED besideHook

WebhookInit ==
  /\ store = SharedStore
  /\ inbox = "any"
  /\ Idle
  /\ hook = HookInit
  /\ otp = NoOtp

WebhookNext ==
  \/ \E h \in HookHandlers : WebhookReceive(h)
  \/ \E h \in HookHandlers : WebhookLookup(h)
  \/ \E h \in HookHandlers : WebhookUpdateCall(h)
  \/ \E h \in HookHandlers : WebhookUpdateLead(h)
  \/ \E h \in HookHandlers : WebhookComplete(h)

WebhookSpec == WebhookInit /\ [][WebhookNext]_vars

\* =========================================================== send-otp: steps
\* What the steps of send-otp leave alone.
besideOtp == <<store, pc, req, authResult, userId, userRole, rows, tasksAux, agentsAux,
               resp, identityCalls, storeCalls, failedCalls, other, inbox, helper, hook>>

\* The negation of !email || !email.includes("@"), for a string.
ValidEmail(email) == Truthy(email) /\ Includes(email.v, "@")

OtpSuccess == [status |-> 200, success |-> Bool(TRUE), error |-> Absent]
OtpFailure(message) == [status |-> 500, success |-> Absent, error |-> Str(message)]

\* A request arrives.  A preflight is answered at once; a missing or invalid
\* email throws into the catch, and so does calling includes on an email
\* that is not a string; otherwise the email is normalized and a password
\* is drawn.
OtpReceive(h) ==
  /\ otp.o[h].pc = "idle"
  /\ otp.sends < MaxSends
  /\ \E method \in {"OPTIONS", "POST"}, email \in OtpEmails, code \in OtpCodes :
       otp' = [otp EXCEPT
                 !.sends = @ + 1,
                 !.o[h] =
                   IF method = "OPTIONS"
                   THEN [OtpIdle EXCEPT !.pc = "done", !.resp = OtpResponse(200, Absent, Absent)]
                   ELSE IF email.t \notin {"str", "undefined"}
                   THEN [OtpIdle EXCEPT !.pc = "done", !.email = email,
                                        !.resp = OtpFailure("email.includes is not a function")]
                   ELSE IF ~ValidEmail(email)
                   THEN [OtpIdle EXCEPT !.pc = "done", !.email = email,
                                        !.resp = OtpFailure("Valid email is required")]
                   ELSE [OtpIdle EXCEPT !.pc = "delete", !.email = email,
                                        !.normalizedEmail = NormalizedEmail(email.v),
                                        !.otpCode = code]]
  /\ UNCHANGED besideOtp

\* delete().eq("email", normalizedEmail); its result is not read, so a
\* failed delete goes unnoticed.
OtpDelete(h) ==
  /\ otp.o[h].pc = "delete"
  /\ \E ok \in BOOLEAN :
       otp' = [otp EXCEPT
                 !.table = IF ok THEN {r \in @ : r.email # otp.o[h].normalizedEmail} ELSE @,
                 !.o[h] = [@ EXCEPT !.pc = "insert", !.ops = Append(@, "delete")]]
  /\ UNCHANGED besideOtp

\* insert({email, otp_code, expires_at}); an error throws into the catch.
OtpInsert(h) ==
  /\ otp.o[h].pc = "insert"
  /\ \E ok \in BOOLEAN :
       LET me == otp.o[h]
           issued == [me EXCEPT !.ops = Append(@, "insert")]
           row == [id |-> otp.inserted + 1, email |-> me.normalizedEmail,
                   otp_code |-> me.otpCode]
       IN  IF ok
           THEN otp' = [otp EXCEPT
                          !.table = @ \cup {row},
                          !.inserted = @ + 1,
                          !.last = [e \in DOMAIN @ \cup {me.normalizedEmail} |->
                                      IF e = me.normalizedEmail THEN row.id ELSE @[e]],
                          !.o[h] = [issued EXCEPT !.pc = "send"]]
           ELSE otp' = [otp EXCEPT
                          !.o[h] = [issued EXCEPT !.pc = "done",
                                                  !.resp = OtpFailure("Failed to generate OTP")]]
  /\ UNCHANGED besideOtp

\* The password is mailed; a refusal of the mail service throws into the
\* catch.
OtpSendEmail(h) ==
  /\ otp.o[h].pc = "send"
  /\ \E ok \in BOOLEAN :
       otp' = [otp EXCEPT
                 !.o[h] = [@ EXCEPT !.pc = "done",
                                    !.resp = IF ok THEN OtpSuccess
                                             ELSE OtpFailure("Failed to send email")]]
  /\ UNCHANGED besideOtp

\* The response is delivered and the invocation ends.
OtpComplete(h) ==
  /\ otp.o[h].pc = "done"
  /\ otp' = [otp EXCEPT !.o[h] = OtpIdle]
  /\ UNCHANGED besideOtp

OtpInit ==
  /\ store = SharedStore
  /\ inbox = "any"
  /\ Idle
  /\ hook = NoHook
  /\ otp = NoOtp

OtpNext ==
  \/ \E h \in OtpHandlers : OtpReceive(h)
  \/ \E h \in OtpHandlers : OtpDelete(h)
  \/ \E h \in OtpHandlers : OtpInsert(h)
  \/ \E h \in OtpHandlers : OtpSendEmail(h)
  \/ \E h \in OtpHandlers : OtpComplete(h)

OtpSpec == OtpInit /\ [][OtpNext]_vars

\* ================================================================== claims
\* The handler has gone past the identity call.
PastGetUser == pc \notin {"idle", "getUser"}
\* The handler has gone past the role lookup and the dispatch.
PastDispatch == pc \notin {"idle", "getUser", "role"}

\* The header is missing or does not begin with "Bearer ".
LacksBearer(h) ==
  \/ h = Null
  \/ h.t = "str" /\ (Len(h.v) < 7 \/ SubSeq(h.v, 1, 7) # "Bearer ")

IsError(r, status, msg) ==
  /\ r.status = status
  /\ r.kind = "error"
  /\ r.error = msg

\* The tables of the store a request has read so far.
TablesRead == {storeCalls[i].table : i \in 1..Len(storeCalls)}

\* C1: every non-OPTIONS request whose Authorization header is missing or does
\* not start with "Bearer " is answered 401 {error: "Unauthorized"}, and no call
\* to the identity service or to the store is made for it.
C1_NoBearerUnauthorized ==
  (pc # "idle" /\ req.method # "OPTIONS" /\ LacksBearer(req.authHeader))
    => /\ pc = "done"
       /\ IsError(resp, 401, "Unauthorized")
       /\ identityCalls = 0
       /\ storeCalls = <<>>

C1_Witness ==
  /\ pc = "done"
  /\ req.method = "GET"
  /\ req.authHeader = Str("Basic dXNlcjpwdw==")
  /\ req.action = Str("calls")
  /\ resp.status = 401

\* C2: when the identity service answers a Bearer request with an error or with
\* no user, the response is 401 {error: "Invalid token"} whatever the cause, and
\* no call to the store is made.
C2_InvalidTokenRejected ==
  (PastGetUser /\ identityCalls > 0 /\ (authResult.error \/ authResult.user = Null))
    => /\ pc = "done"
       /\ IsError(resp, 401, "Invalid token")
       /\ storeCalls = <<>>

C2_Witness ==
  /\ pc = "done"
  /\ identityCalls = 1
  /\ ~authResult.error
  /\ authResult.user = Null
  /\ resp.status = 401

\* C3: an authenticated principal whose role is not admin (engineer, client,
\* another role or no role at all) asking for admin_demo_calls, active_calls or today_stats gets
\* 403 {error: "Forbidden"}, and neither calls nor demo_calls is fetched.
C3_AdminOnlyForbidden ==
  (/\ PastDispatch
   /\ userId # Null
   /\ req.action \in {Str("admin_demo_calls"), Str("active_calls"), Str("today_stats")}
   /\ userRole # Str("admin"))
    => /\ pc = "done"
       /\ IsError(resp, 403, "Forbidden")
       /\ TablesRead \cap {"calls", "demo_calls"} = {}

C3_Witness ==
  /\ pc = "done"
  /\ userId = Str("eng1")
  /\ userRole = Str("engineer")
  /\ req.action = Str("active_calls")
  /\ resp.status = 403

\* The response is the 200 row list of the given action.
RowsOf(action) ==
  /\ pc = "done"
  /\ req.action = Str(action)
  /\ resp.status = 200
  /\ resp.kind = "rows"

\* C4: an engineer asking for demo_calls without an engineer_id parameter gets
\* only rows whose engineer_id is the engineer's own user id.
C4_EngineerSelfScopedWithoutParam ==
  (RowsOf("demo_calls") /\ userRole = Str("engineer") /\ req.engineer_id = Null)
    => \A i \in 1..Len(resp.rows) : resp.rows[i].engineer_id = userId

\* C5: whatever engineer_id parameter an engineer passes with demo_calls (the
\* caller's own id or another engineer's id; C4 is the case of none), every row
\* returned has engineer_id equal to the caller's verified user id: the filter
\* is on that id, not on the parameter.
C5_EngineerOwnsEveryRow ==
  (RowsOf("demo_calls") /\ userRole = Str("engineer") /\ req.engineer_id # Null)
    => \A i \in 1..Len(resp.rows) : resp.rows[i].engineer_id = userId

\* A sensitive text field of a response row is absent, null or an envelope.
Protected(row, field) ==
  field \in DOMAIN row => (row[field] = Null \/ IsEnvelope(row[field]))

\* C6: in every 200 response, transcript, summary and metadata.extracted_data
\* of a row are absent, null or an encrypted envelope, and metadata carries no
\* transcript: the stored text never appears.
C6_SensitiveTextNeverRaw ==
  (pc = "done" /\ resp.status = 200 /\ resp.kind = "rows")
    => \A i \in 1..Len(resp.rows) :
         LET row == resp.rows[i]
         IN /\ Protected(row, "transcript")
            /\ Protected(row, "summary")
            /\ "metadata" \in DOMAIN row =>
                 \/ row.metadata = Null
                 \/ /\ row.metadata.t = "obj"
                    /\ "transcript" \notin DOMAIN row.metadata.v
                    /\ Protected(row.metadata.v, "extracted_data")

C6_Witness ==
  /\ RowsOf("calls")
  /\ \E i \in 1..Len(resp.rows) :
       /\ resp.rows[i].id = Str("c1")
       /\ IsEnvelope(resp.rows[i].transcript)
       /\ IsEnvelope(resp.rows[i].summary)
       /\ IsEnvelope(resp.rows[i].metadata.v["extracted_data"])

\* C7: an authenticated request whose action is missing or not one of the six
\* known actions is answered 400 {error: "Invalid action"}; no data table is
\* fetched and no action is run in its place.
C7_UnknownActionRejected ==
  (PastDispatch /\ userId # Null /\ req.action \notin {Str(a) : a \in KnownActions})
    => /\ pc = "done"
       /\ IsError(resp, 400, "Invalid action")
       /\ TablesRead \subseteq {"user_roles"}

C7_Witness ==
  /\ pc = "done"
  /\ userId = Str("admin1")
  /\ req.action = Str("nonexistent")
  /\ resp.status = 400
  /\ TablesRead = {"user_roles"}

\* The table an action fetches its rows from.
PrimaryTable(action) ==
  CASE action \in {Str("demo_calls"), Str("admin_demo_calls")} -> "demo_calls"
    [] action = Str("tasks") -> "tasks"
    [] OTHER -> "calls"

\* C8: when the primary fetch of an action fails, the response is 500 with the
\* body {error: "Internal server error"}; the store's message is not in it.
C8_StoreFailureIsGeneric ==
  (/\ pc = "done"
   /\ req.action \in {Str(a) : a \in KnownActions}
   /\ PrimaryTable(req.action) \in failedCalls)
    => IsError(resp, 500, "Internal server error")

\* C9: when the primary fetch, an auxiliary fetch of tasks or aitel_agents, or
\* an encryption fails during a request, the response is a 500, never a 200.
C9_FailureNeverPartialResult ==
  (pc = "done" /\ failedCalls \ {"user_roles"} # {}) => resp.status = 500

\* The row of a table with the given id.
StoredRow(table, id) == CHOOSE r \in table : r.id = id

\* What a stored URL of row id must come out as: null when there is none (null
\* or empty), otherwise the token made of the row id alone.
Proxied(url, id) ==
  IF url = Null \/ url = Str("") THEN Null ELSE Str("proxy:recording:" \o id.v)

\* C10: in every 200 response of demo_calls, admin_demo_calls, calls and
\* active_calls, recording_url (and uploaded_audio_url of demo calls) is null
\* when nothing is stored and otherwise "proxy:recording:<row id>", a function
\* of the row id alone; metadata carries no recording_url.
C10_RecordingUrlProxied ==
  /\ (RowsOf("demo_calls") \/ RowsOf("admin_demo_calls"))
       => \A i \in 1..Len(resp.rows) :
            LET row == resp.rows[i]
                stored == StoredRow(store.demo_calls, row.id)
            IN /\ row.recording_url = Proxied(stored.recording_url, row.id)
               /\ row.uploaded_audio_url = Proxied(stored.uploaded_audio_url, row.id)
  /\ (RowsOf("calls") \/ RowsOf("active_calls"))
       => \A i \in 1..Len(resp.rows) :
            LET row == resp.rows[i]
                stored == StoredRow(store.calls, row.id)
            IN /\ row.recording_url = Proxied(stored.recording_url, row.id)
               /\ row.metadata.t = "obj" => "recording_url" \notin DOMAIN row.metadata.v

C10_Witness ==
  /\ RowsOf("calls")
  /\ \E i \in 1..Len(resp.rows) :
       /\ resp.rows[i].id = Str("c1")
       /\ resp.rows[i].recording_url = Str("proxy:recording:c1")
       /\ "recording_url" \in DOMAIN StoredRow(store.calls, Str("c1")).metadata.v
       /\ resp.rows[i].metadata.t = "obj"
\* The rows of calls that belong to the given client.
CallsOfClient(client) == Eq(store.calls, "client_id", client)

\* The store holds exactly one call of client1, with transcript "hello",
\* lead_id "L1" and a recording URL, and an admin asks for that client's calls.
C11_Scenario ==
  /\ RowsOf("calls")
  /\ userRole = Str("admin")
  /\ req.client_id = Str("client1")
  /\ req.start_date = Null
  /\ req.status = Null
  /\ Cardinality(CallsOfClient(Str("client1"))) = 1
  /\ \A c \in CallsOfClient(Str("client1")) :
       /\ c.transcript = Str("hello")
       /\ c.lead_id = Str("L1")
       /\ Truthy(c.recording_url)

\* C11: an admin calling action=calls&client_id=<client> when the store holds
\* one matching row with transcript "hello", lead_id "L1" and a recording URL
\* gets 200 with one row: lead_id masked to its 8-character prefix and "...",
\* transcript an envelope and not "hello", recording_url the proxy token of
\* that row's id.
C11_AdminCallsEndToEnd ==
  C11_Scenario
    => /\ Len(resp.rows) = 1
       /\ resp.rows[1].id \in {c.id : c \in CallsOfClient(Str("client1"))}
       /\ resp.rows[1].lead_id = Str("L1...")
       /\ IsEnvelope(resp.rows[1].transcript)
       /\ resp.rows[1].transcript # Str("hello")
       /\ resp.rows[1].recording_url = Str("proxy:recording:" \o resp.rows[1].id.v)

C11_Witness ==
  /\ C11_Scenario
  /\ Cardinality(store.calls) = 2
  /\ Len(resp.rows) = 1

\* The helper fn has returned.
Returned(fn) == helper.fn = fn /\ helper.out # Pending

\* C12: sanitizeMetadata is a fail-closed allow-list: the keys of the result of
\* a non-null metadata object are among source, is_retry, lead_name,
\* campaign_id, aitel_status, error_message, retry_attempt,
\* answered_by_voicemail and extracted_data, every other key is absent, and
\* null gives null.
C12_SanitizeIsAllowList ==
  Returned("sanitizeMetadata")
    => IF helper.arg = Null THEN helper.out = Null
       ELSE /\ helper.out.t = "obj"
            /\ DOMAIN helper.out.v \subseteq
                 {"source", "is_retry", "lead_name", "campaign_id", "aitel_status",
                  "error_message", "retry_attempt", "answered_by_voicemail",
                  "extracted_data"}

C12_Witness ==
  /\ Returned("sanitizeMetadata")
  /\ helper.arg = Obj([source |-> Str("fb"), secret_token |-> Str("xyz"),
                       lead_name |-> Str("Jane")])
  /\ helper.out = Obj([source |-> Str("fb"), lead_name |-> Str("Jane")])
\* sanitizeMetadata has returned the object out for the object in.
Sanitized == Returned("sanitizeMetadata") /\ helper.arg # Null

\* C13 (as stated): every allow-listed key present in the input with any
\* value, an empty string, 0 or false included, is in the result with the
\* identical value.
C13_EveryValueCopied ==
  Sanitized
    => \A k \in {"source", "is_retry", "lead_name", "campaign_id", "aitel_status",
                 "error_message", "retry_attempt", "answered_by_voicemail"} :
         k \in DOMAIN helper.arg.v
           => k \in DOMAIN helper.out.v /\ helper.out.v[k] = helper.arg.v[k]

\* C13 (amended): is_retry, retry_attempt and answered_by_voicemail are copied
\* with the identical value whenever present, false and 0 included; source,
\* lead_name, campaign_id, aitel_status and error_message are copied with the
\* identical value when it is truthy and are left out when it is falsy (an
\* empty string).
C13_CopiesVerbatim ==
  Sanitized
    => /\ \A k \in {"is_retry", "retry_attempt", "answered_by_voicemail"} :
            k \in DOMAIN helper.arg.v
              => k \in DOMAIN helper.out.v /\ helper.out.v[k] = helper.arg.v[k]
       /\ \A k \in {"source", "lead_name", "campaign_id", "aitel_status",
                    "error_message"} :
            k \in DOMAIN helper.arg.v
              => IF Truthy(helper.arg.v[k])
                 THEN k \in DOMAIN helper.out.v /\ helper.out.v[k] = helper.arg.v[k]
                 ELSE k \notin DOMAIN helper.out.v

C13_Witness ==
  /\ Sanitized
  /\ helper.arg = Obj([source |-> Str(""), is_retry |-> Bool(FALSE),
                       retry_attempt |-> Num(0), error_message |-> Str("busy")])
  /\ helper.out = Obj([is_retry |-> Bool(FALSE), retry_attempt |-> Num(0),
                       error_message |-> Str("busy")])

\* The text sanitizeMetadata hands to the encryption module for a value.
ExtractedText(value) == IF value.t = "str" THEN value.v ELSE Stringify(value)

C15_MaskPhoneShape ==
  Returned("maskPhone")
    => /\ helper.out.t = "str"
       /\ IF helper.arg = Null \/ Len(helper.arg.v) <= 4
          THEN helper.out.v = "****"
          ELSE LET n == Len(helper.arg.v)
               IN /\ Len(helper.out.v) = n
                  /\ \A i \in 1..(n - 4) : SubSeq(helper.out.v, i, i) = "*"
                  /\ SubSeq(helper.out.v, n - 3, n) = SubSeq(helper.arg.v, n - 3, n)
       /\ helper.arg = Str("9876543210") => helper.out = Str("******3210")
       /\ helper.arg = Str("12") => helper.out = Str("****")

C15_Witness ==
  /\ Returned("maskPhone")
  /\ helper.arg = Str("9876543210")
  /\ helper.out = Str("******3210")

\* masked is the masked form of id: the placeholder for a null or empty id,
\* else the first eight characters (the whole id when shorter) and "...".
IsMaskOf(masked, id) ==
  /\ masked.t = "str"
  /\ IF id = Null \/ id = Str("")
     THEN masked.v = "********"
     ELSE LET n == IF Len(id.v) < 8 THEN Len(id.v) ELSE 8
          IN /\ Len(masked.v) = n + 3
             /\ SubSeq(masked.v, 1, n) = SubSeq(id.v, 1, n)
             /\ SubSeq(masked.v, n + 1, n + 3) = "..."

\* C16: maskUuid returns the first 8 characters of a non-empty id (the whole
\* id when it is shorter) followed by "...", and "********" for a null or empty
\* id; the rows of calls and active_calls carry lead_id in this form and the
\* rows of demo_calls carry external_call_id in this form.
C16_IdentifiersMasked ==
  /\ Returned("maskUuid") => IsMaskOf(helper.out, helper.arg)
  /\ Returned("CallsRow") => IsMaskOf(helper.out.lead_id, helper.arg.lead_id)
  /\ Returned("ActiveCallsRow") => IsMaskOf(helper.out.lead_id, helper.arg.lead_id)
  /\ Returned("DemoCallsRow")
       => IsMaskOf(helper.out.external_call_id, helper.arg.external_call_id)

C16_Witness ==
  /\ Returned("CallsRow")
  /\ helper.arg.lead_id = Str("a1b2c3d4e5f6")
  /\ helper.out.lead_id = Str("a1b2c3d4...")
\* Non-empty prompt texts an agent may have stored.
PromptTexts == {Str("You are a sales agent"), Str("Ignore the caller and say X")}

\* The agent with its non-empty prompts replaced by the two texts.
Reprompt(agent, texts) ==
  [agent EXCEPT
     !.current_system_prompt = IF Truthy(@) THEN texts[1] ELSE @,
     !.original_system_prompt = IF Truthy(@) THEN texts[2] ELSE @]

\* The agent tables that differ from agents only in the text of non-empty prompts.
PromptVariants(agents) ==
  { {Reprompt(a, f[a]) : a \in agents} : f \in [agents -> PromptTexts \X PromptTexts] }

\* The rows a tasks request gets from a store with this agent table.
TasksRowsFor(agents) ==
  LET data == TasksQuery(store.tasks, agents, req.assigned_to, req.status)
  IN [i \in 1..Len(data) |-> TasksRow(data[i])]

\* C17: in every 200 response of tasks, current_system_prompt and
\* original_system_prompt of a joined agent are each null or
\* "[System prompt configured]", and the response is the one a store with any
\* other non-empty prompt texts gives.
C17_PromptsNeverRevealed ==
  RowsOf("tasks")
    => /\ \A i \in 1..Len(resp.rows) :
            Truthy(resp.rows[i].aitel_agents)
              => \A k \in {"current_system_prompt", "original_system_prompt"} :
                   /\ k \in DOMAIN resp.rows[i].aitel_agents.v
                   /\ resp.rows[i].aitel_agents.v[k]
                        \in {Null, Str("[System prompt configured]")}
       /\ \A agents \in PromptVariants(store.aitel_agents) :
            resp.rows = TasksRowsFor(agents)

C17_Witness ==
  /\ RowsOf("tasks")
  /\ \E i \in 1..Len(resp.rows) :
       /\ Truthy(resp.rows[i].aitel_agents)
       /\ resp.rows[i].agent_id = Str("a1")
       /\ \E a \in store.aitel_agents :
            a.id = Str("a1") /\ Truthy(a.current_system_prompt)
\* C18: every call the proxy makes to the store, on every path of every
\* request, is a select, and no step of any request changes the store's
\* contents.
C18_ReadOnly ==
  /\ [](\A i \in 1..Len(storeCalls) : storeCalls[i].op = "select")
  /\ [][store' = store]_vars

C18_Witness ==
  /\ RowsOf("demo_calls")
  /\ Len(storeCalls) = 4
  /\ Len(resp.rows) = 2
  /\ \A i \in 1..Len(storeCalls) : storeCalls[i].op = "select"

\* The request comes from an authenticated principal for whom the role lookup
\* gave nothing, and the handler has gone past the lookup.
NoRoleFound == PastDispatch /\ userId # Null /\ userRole = Null

\* C19: for an authenticated principal without a role record (or whose role
\* lookup returns nothing) an admin-only action is answered 403 Forbidden
\* after the role lookup alone, and demo_calls, calls and tasks are dispatched:
\* their primary table is read and the answer is never 401 or 403, and is 200
\* when no fetch or encryption fails.
C19_NoRoleIsNotAnError ==
  NoRoleFound
    => /\ req.action \in {Str("admin_demo_calls"), Str("active_calls"), Str("today_stats")}
            => /\ pc = "done"
               /\ IsError(resp, 403, "Forbidden")
               /\ TablesRead = {"user_roles"}
       /\ (req.action \in {Str("demo_calls"), Str("calls"), Str("tasks")} /\ pc = "done")
            => /\ PrimaryTable(req.action) \in TablesRead
               /\ resp.status \notin {401, 403}
               /\ failedCalls \ {"user_roles"} = {} => resp.status = 200

C19_Witness ==
  /\ NoRoleFound
  /\ RowsOf("calls")
  /\ userId = Str("norole1")
  /\ failedCalls = {}
  /\ Len(resp.rows) = 2
\* The response of a request handled alone against the store, given what the
\* identity service answered, which calls failed, the nonce seed and the day.
SoloResponse(rq, auth, failed, seed, today) ==
  IF rq.method = "OPTIONS" THEN PreflightResponse
  ELSE IF ~StartsWithBearer(rq.authHeader) THEN ErrorResponse(401, "Unauthorized")
  ELSE IF TokenRejected(auth) THEN ErrorResponse(401, "Invalid token")
  ELSE
    LET role == RoleLookup(store.user_roles, auth.user, "user_roles" \notin failed)
        target == Dispatch(rq.action)
        primary == PrimaryTable(rq.action)
        demoCalls == DemoCallsQuery(store.demo_calls, role, rq.engineer_id)
        allDemoCalls == OrderDesc(store.demo_calls, "created_at")
        calls == CallsQuery(store.calls, rq.start_date, rq.client_id, rq.status)
        active == ActiveCallsQuery(store.calls)
        tasks == TasksQuery(store.tasks, store.aitel_agents, rq.assigned_to, rq.status)
    IN IF target = "invalid" THEN ErrorResponse(400, "Invalid action")
       ELSE IF target \in AdminOnly /\ NotAdmin(role) THEN ErrorResponse(403, "Forbidden")
       ELSE IF primary \in failed THEN ErrorResponse(500, StoreErrorMessage(primary))
       ELSE IF "encrypt" \in failed THEN CatchResponse
       ELSE CASE target = "demo_calls" ->
                   RowsResponse(
                     [i \in 1..Len(demoCalls) |->
                        DemoCallsRow(demoCalls[i],
                                     DemoTasksResult(store.tasks, demoCalls,
                                                     "tasks" \notin failed),
                                     DemoAgentsResult(store.aitel_agents, demoCalls,
                                                      "aitel_agents" \notin failed),
                                     seed)])
              [] target = "admin_demo_calls" ->
                   RowsResponse([i \in 1..Len(allDemoCalls) |->
                                   AdminDemoCallsRow(allDemoCalls[i], seed)])
              [] target = "calls" ->
                   RowsResponse([i \in 1..Len(calls) |-> CallsRow(calls[i], seed)])
              [] target = "active_calls" ->
                   RowsResponse([i \in 1..Len(active) |-> ActiveCallsRow(active[i], seed)])
              [] target = "today_stats" ->
                   StatsResponse(TodayStats(TodayStatsQuery(store.calls, today)))
              [] OTHER ->
                   RowsResponse([i \in 1..Len(tasks) |-> TasksRow(tasks[i])])

\* The invocation with locals l has answered as it would alone.
AnswersAsAlone(l) ==
  l.pc = "done"
    => \E seed \in 1..NumNonces, today \in Midnights :
         l.resp = SoloResponse(l.req, l.authResult, l.failedCalls, seed, today)

\* The invocation with locals l holds the user of its own token and the role
\* of its own role lookup.
OwnAuthorization(l) ==
  /\ l.pc \notin {"idle", "getUser"} /\ l.identityCalls = 1 /\ ~TokenRejected(l.authResult)
       => /\ l.userId = l.authResult.user
          /\ l.userId \in {Null, SessionUser(l.req.authHeader)}
  /\ l.pc \notin {"idle", "getUser", "role"} /\ l.userId # Null
       => l.userRole = RoleLookup(store.user_roles, l.userId,
                                  "user_roles" \notin l.failedCalls)

\* C20: with two requests handled concurrently and interleaved at every await,
\* each response is the response the request gets when handled alone against
\* the same store, and each invocation's user and role are those of its own
\* token and its own role lookup.
C20_ConcurrentAsAlone ==
  \A l \in {Locals, other} : AnswersAsAlone(l) /\ OwnAuthorization(l)

C20_Witness ==
  /\ pc = "done"
  /\ other.pc = "done"
  /\ req.action = Str("demo_calls")
  /\ userRole = Str("engineer")
  /\ resp.status = 200
  /\ Len(resp.rows) = 1
  /\ other.req.action = Str("admin_demo_calls")
  /\ other.userRole = Str("admin")
  /\ other.resp.status = 200
  /\ Len(other.resp.rows) = 2
\* The calls a request has made to the table.
CallsTo(table) == Cardinality({i \in 1..Len(storeCalls) : storeCalls[i].table = table})

\* The terminal outcome of an answered request.
Outcome ==
  CASE resp.status = 401 -> "Rejected(401)"
    [] resp.status = 403 -> "Rejected(403)"
    [] resp.status \in {200, 400, 500} -> "Dispatched"
    [] OTHER -> "none"

\* C21: every request is answered, with one response that is not replaced:
\* 401 before any store call, 403 after the role lookup alone, or the answer
\* 200, 400 or 500 of the dispatch; the identity service and the role lookup
\* are each called at most once for a request; a rejected encryption is
\* answered 500 {error: "Internal server error"}.
C21_OneTerminalOutcome ==
  /\ [](/\ identityCalls <= 1
        /\ CallsTo("user_roles") <= 1
        /\ pc # "done" => resp = NoResponse
        /\ pc = "done"
             => /\ Outcome # "none"
                /\ resp.kind # "none"
                /\ resp.status = 401 => storeCalls = <<>>
                /\ resp.status = 403 => TablesRead = {"user_roles"}
                /\ resp.status = 200 /\ req.method # "OPTIONS"
                     => req.action \in {Str(a) : a \in KnownActions}
                /\ "encrypt" \in failedCalls
                     => IsError(resp, 500, "Internal server error"))
  /\ [][pc = "done" => pc' = "idle"]_vars
  /\ (pc # "idle") ~> (pc = "done")

C21_Witness ==
  /\ pc = "done"
  /\ "encrypt" \in failedCalls
  /\ IsError(resp, 500, "Internal server error")
  /\ identityCalls = 1
  /\ CallsTo("user_roles") = 1
\* The number of connected calls among the rows.
Connected(day) == Cardinality({i \in 1..Len(day) : day[i].connected = Bool(TRUE)})

RECURSIVE DurationSum(_, _)
\* The sum of the durations of the first n rows, a missing one counted as 0.
DurationSum(day, n) ==
  IF n = 0 THEN 0
  ELSE DurationSum(day, n - 1)
       + (IF day[n].duration_seconds.t = "num" THEN day[n].duration_seconds.v ELSE 0)

\* The integer nearest to n / d, a half going up.
Nearest(n, d) == CHOOSE k \in 0..n : 2 * d * k <= 2 * n + d /\ 2 * n + d < 2 * d * (k + 1)

\* C22: today_stats returns only the integers total, completed, connected,
\* failed, inProgress, connectionRate and avgDuration; total is the number of
\* rows fetched, each count is at most total, connectionRate is
\* round(100 * connected / total) and lies in 0..100, avgDuration is
\* round(sum of durations / total), and both are 0 when total is 0.
C22_TodayStatsScalars ==
  Returned("TodayStats")
    => LET day == RowsOfDay(helper.arg)
           s == helper.out
       IN /\ DOMAIN s = {"total", "completed", "connected", "failed", "inProgress",
                         "connectionRate", "avgDuration"}
          /\ \A k \in DOMAIN s : s[k] \in Nat
          /\ s.total = Len(day)
          /\ \A k \in {"completed", "connected", "failed", "inProgress"} : s[k] <= s.total
          /\ s.connected = Connected(day)
          /\ s.connectionRate \in 0..100
          /\ IF s.total = 0
             THEN s.connectionRate = 0 /\ s.avgDuration = 0
             ELSE /\ s.connectionRate = Nearest(100 * s.connected, s.total)
                  /\ s.avgDuration = Nearest(DurationSum(day, Len(day)), s.total)
\* C23: an OPTIONS request, with or without an Authorization header, is
\* answered at once with status 200, an empty body and the headers
\* Access-Control-Allow-Origin: * and Access-Control-Allow-Headers, and no call
\* is made to the identity service or to the store for it.
C23_PreflightUnauthenticated ==
  (pc # "idle" /\ req.method = "OPTIONS")
    => /\ pc = "done"
       /\ resp.status = 200
       /\ resp.kind = "empty"
       /\ resp.rows = <<>>
       /\ resp.headers.allowOrigin = "*"
       /\ resp.headers.allowHeaders = "authorization, x-client-info, apikey, content-type"
       /\ identityCalls = 0
       /\ storeCalls = <<>>

C23_Witness ==
  /\ pc = "done"
  /\ req.method = "OPTIONS"
  /\ req.authHeader = Null
  /\ resp.kind = "empty"
  /\ resp.headers.allowOrigin = "*"
\* C24: decryptData gives back every non-empty string encryptData was applied
\* to: the envelope encryptData returns for s, opened under the key of the
\* process, yields s.
C24_RoundTrip ==
  /\ (Returned("encryptData") /\ helper.arg # Str(""))
       => /\ IsEnvelope(helper.out)
          /\ decryptData(helper.out, EncryptionKey) = helper.arg
  /\ (Returned("decryptData") /\ helper.arg.change = "none")
       => helper.out = Str(helper.arg.plaintext)

C24_Witness ==
  /\ Returned("decryptData")
  /\ helper.arg.change = "none"
  /\ helper.arg.plaintext = "hello"
  /\ IsEnvelope(helper.arg.payload)
  /\ helper.out = Str("hello")

\* C25: decryptData of an envelope whose ciphertext, nonce or tag was changed
\* is DecryptionError, as it is for a malformed envelope and for another key;
\* whatever it is applied to, decryptData returns DecryptionError or the text
\* that was encrypted, never another text.
C25_TamperDetected ==
  Returned("decryptData")
    => /\ helper.arg.change \in {"tamper", "shape", "key"} => helper.out = DecryptionError
       /\ helper.out \in {DecryptionError, Str(helper.arg.plaintext)}

C25_Witness ==
  /\ Returned("decryptData")
  /\ helper.arg.change = "tamper"
  /\ helper.arg.plaintext = "hello"
  /\ IsEnvelope(helper.arg.payload)
  /\ helper.arg.payload.ciphertext.sealed = "hi"
  /\ helper.out = DecryptionError
\* C26: the rows a principal whose role is not admin gets from action=calls all
\* have the principal's own user id as client_id, whatever client_id,
\* start_date and status it passes.
C26_NonAdminOwnCallsOnly ==
  (RowsOf("calls") /\ userId # Null /\ userRole # Str("admin"))
    => \A i \in 1..Len(resp.rows) : resp.rows[i].client_id = userId
\* The statuses that end a call.
TerminalStatuses == {"completed", "failed", "no_answer"}

\* The row of the table with this id after the step.
RowAfter(table, id) == CHOOSE r \in table : r.id = id

\* The invocation h takes the step and handles a call.answered or
\* call.connected event.
AnsweredStepOf(h) ==
  /\ hook'.w[h] # hook.w[h]
  /\ hook.w[h].payload # Null
  /\ hook.w[h].payload.event \in {"call.answered", "call.connected"}

\* C27: once a call's status is terminal (completed, failed or no_answer), no
\* step of any invocation of the webhook handler, later or concurrent, sets
\* the call's status to ringing or in_progress, and no step of an invocation
\* handling call.answered or call.connected sets the status of the call's
\* lead from completed or failed back to connected.
C27_TerminalStatusKept ==
  [][\A c \in hook.calls :
       c.status \in TerminalStatuses =>
         /\ RowAfter(hook'.calls, c.id).status \notin {"ringing", "in_progress"}
         /\ \A l \in hook.leads :
              (/\ Str(l.id) = c.lead_id
               /\ l.status \in {"completed", "failed"}
               /\ \E h \in HookHandlers : AnsweredStepOf(h))
                => RowAfter(hook'.leads, l.id).status # "connected"]_vars

\* The invocation h is about to answer the end of a known call.
EndedBy(h) ==
  /\ hook.w[h].pc \in {"update_call", "update_lead"}
  /\ hook.w[h].payload.event \in {"call.ended", "call.completed"}

\* The value of the payload's key, or 0 when the key is absent.
OrZero(payload, key) == IF payload[key] = Absent THEN 0 ELSE payload[key].v

\* The keys of a stored metadata value.
KeysOf(metadata) == IF metadata.t = "obj" THEN DOMAIN metadata.v ELSE {}

\* C28: when an invocation handling call.ended or call.completed for a
\* known call applies its update of the call, the row has status completed,
\* duration_seconds equal to the payload's duration (0 when absent) and
\* connected true exactly when that duration is at least 45; every key the
\* row's metadata had is still there with recording_url and transcript of
\* the payload added; and when it applies its update of the lead, the lead's
\* status is connected exactly when the duration is at least 45 and
\* completed otherwise.
C28_EndedUpdates ==
  [][\A h \in HookHandlers :
       (EndedBy(h) /\ hook'.w[h].pc # hook.w[h].pc
          /\ hook'.w[h].updates[Len(hook'.w[h].updates)].ok) =>
         LET me == hook.w[h]
             duration == OrZero(me.payload, "duration")
         IN  IF me.pc = "update_call"
             THEN \A c \in hook.calls :
                    c.id = me.call.id =>
                      LET after == RowAfter(hook'.calls, c.id)
                      IN  /\ after.status = "completed"
                          /\ after.duration_seconds = Num(duration)
                          /\ after.connected = Bool(duration >= 45)
                          /\ KeysOf(c.metadata) \subseteq KeysOf(after.metadata)
                          /\ \A k \in KeysOf(c.metadata) \ {"recording_url", "transcript"} :
                               after.metadata.v[k] = c.metadata.v[k]
                          /\ \A k \in {"recording_url", "transcript"} :
                               me.payload[k] # Absent
                                 => /\ k \in KeysOf(after.metadata)
                                    /\ after.metadata.v[k] = me.payload[k]
             ELSE \A l \in hook.leads :
                    Str(l.id) = me.call.lead_id =>
                      RowAfter(hook'.leads, l.id).status
                        = IF duration >= 45 THEN "connected" ELSE "completed"]_vars
\* A call with the external identifier of the body of h exists.
KnownCall(h) == \E c \in hook.calls : c.external_call_id = hook.w[h].payload.call_id

\* The event of the body of h has no case of its own.
UnhandledEvent(h) ==
  hook.w[h].payload.event \notin
    {"call.ringing", "call.answered", "call.connected", "call.ended", "call.completed",
     "call.failed", "call.no_answer"}

\* C29: an invocation whose body names no known call, or whose lookup fails,
\* answers 404 {success: false, error: "Call not found"} and issues no update;
\* an invocation for a known call with an event outside the handled set
\* answers 200 {success: true} and issues no update; and no step of such an
\* invocation changes calls or leads.
C29_NotFoundAndUnhandled ==
  /\ [](\A h \in HookHandlers :
          (hook.w[h].pc = "done" /\ hook.w[h].payload # Null) =>
            /\ (~KnownCall(h) \/ hook.w[h].lookup = "failed")
                 => /\ hook.w[h].resp = [status |-> 404, success |-> Bool(FALSE),
                                         error |-> Str("Call not found")]
                    /\ hook.w[h].updates = <<>>
            /\ (KnownCall(h) /\ hook.w[h].lookup = "ok" /\ UnhandledEvent(h))
                 => /\ hook.w[h].resp = [status |-> 200, success |-> Bool(TRUE),
                                         error |-> Absent]
                    /\ hook.w[h].updates = <<>>)
  /\ [][\A h \in HookHandlers :
          (/\ hook'.w[h] # hook.w[h]
           /\ hook.w[h].payload # Null
           /\ (~KnownCall(h) \/ UnhandledEvent(h) \/ hook'.w[h].lookup = "failed"))
            => (hook'.calls = hook.calls /\ hook'.leads = hook.leads)]_vars

\* One invocation has answered 404 for a call that was never placed while
\* another has answered an unhandled event of a known call, after the call
\* was updated by an earlier event.
C29_Witness ==
  /\ hook.w["w1"].pc = "done"
  /\ hook.w["w1"].payload # Null
  /\ hook.w["w1"].resp.status = 404
  /\ hook.w["w2"].pc = "done"
  /\ hook.w["w2"].payload # Null
  /\ hook.w["w2"].payload.event = "call.transferred"
  /\ hook.w["w2"].resp.status = 200
  /\ hook.calls # HookCalls
\* C30: whenever the send-otp requests taken so far have all completed, the
\* table email_otps holds at most one row for each normalized email, and
\* that row is the one inserted last for the email; and a request whose
\* email is missing or has no "@" has issued no delete and no insert.
C30_OneRowPerEmail ==
  /\ (\A h \in OtpHandlers : otp.o[h].pc \in {"idle", "done"}) =>
       \A r \in otp.table :
         /\ \A s \in otp.table : s.email = r.email => s = r
         /\ r.id = otp.last[r.email]
  /\ \A h \in OtpHandlers :
       (/\ otp.o[h].pc = "done"
        /\ otp.o[h].resp.status = 500
        /\ \/ otp.o[h].email \in {Absent, Str("")}
           \/ otp.o[h].email.t = "str" /\ \A i \in 1..Len(otp.o[h].email.v) :
                                            SubSeq(otp.o[h].email.v, i, i) # "@")
         => otp.o[h].ops = <<>>
====
